---- MODULE Spec2Model ----
(***************************************************************************)
(* Model of the adbconnection plugin (src/adbconnection/adbconnection.cc): *)
(* the AdbConnectionState object, its poll-loop worker thread, the threads *)
(* that publish DDM chunks, and the plugin's init/deinit entry points.     *)
(* The adb daemon, the debugger and the jdwp agent are the environment.    *)
(***************************************************************************)
EXTENDS Integers, Sequences, FiniteSets, TLC

(* ------------------------------ bounds --------------------------------- *)
\* Number of debugger descriptors the daemon hands out in one behaviour.
MaxDaemonFds == 2
\* Datagrams the daemon may have queued on the control socket.
MaxAdbdQueue == 1
\* Datagrams the agent may have queued on its control socket.
MaxAgentQueue == 1
\* DDM chunks written in one behaviour before publishing stops.
MaxDdmWrites == 1
\* Largest small payload size published; larger ones are multiples of 65536
\* plus 255, up to this many.
MaxDataSize == 4
MaxAttachCalls == 2
MaxPid == 20

(* -------------------------- program constants -------------------------- *)
kEventfdLocked == 0
kEventfdUnlocked == 1
\* The value of an android::base::unique_fd that owns nothing.
NoFd == -1
\* The descriptor number standing for the daemon's control socket.
ControlFd == 100

\* The process id while the broker is followed.
SamplePids == {4660}
AgentFd == 101
kSleepStartMs == 500
kSleepMaxMs == 2000

kListenStartMessage == "ds-listen-start"
kListenEndMessage == "ds-listen-end"
kAcceptMessage == "ds-accept"
kCloseMessage == "ds-close"
\* Any datagram that matches none of the four tokens.
kOtherMessage == "other"
AgentMessages ==
  {kListenStartMessage, kListenEndMessage, kAcceptMessage, kCloseMessage, kOtherMessage}
\* A datagram that matches none of the tokens and fills the whole of what recv
\* is given room for.
kFullMessage == "other-full"

\* char buf[257]; recv(local_agent_control_sock_, buf, sizeof(buf) - 1, 0).
sizeof_buf == 257
RecvMax == sizeof_buf - 1
\* What recv returns for a datagram: RecvMax for one that long or longer; the
\* others are followed at the longest length below it.
RecvLen(m) == IF m = kFullMessage THEN RecvMax ELSE RecvMax - 1
\* buf[res + 1] = '\0'
TerminatorIndex(res) == res + 1
\* The index is outside buf[0 .. sizeof(buf) - 1].
OutOfBuf(i) == i >= sizeof_buf

\* A uint32_t is kept as its bit 31 (hi) and its low 31 bits (lo).
Uint32(hi, lo) == [hi |-> hi, lo |-> lo]
kLow31Max == 2147483647

\* The JDWP command packet header: length (4), id (4), flags (1), command set
\* (1), command (1); DDM chunks travel as command 1 of command set 0xC7.
kJDWPHeaderLen == 11
kJDWPDdmCmdSet == 199
kJDWPDdmCmd == 1
\* kJDWPHeaderLen + sizeof(uint32_t) (type) + sizeof(uint32_t) (length)
kDdmPacketHeaderSize == kJDWPHeaderLen + 4 + 4

Worker == "worker"
Producers == {"p1", "p2"}
Threads == {Worker} \cup Producers

\* Debugger descriptors the daemon can transfer; 0 in the daemon queue is a
\* datagram that carries no descriptor.
DebuggerFds == 1..MaxDaemonFds

VARIABLES
  \* AdbConnectionState fields
  sleep_event_fd,          \* counter of the wakeup eventfd, NoFd before it is created
  adb_write_event_fd,      \* counter of the write-lock eventfd, NoFd before it is created
  control_sock,
  adb_connection_socket,
  shutting_down,
  agent_loaded,
  agent_listening,
  agent_has_socket,
  sent_agent_fds,
  next_ddm_id,
  \* lifetime of gState
  destroyed,               \* delete gState has run
  \* the rest of what StartDebuggerThreads sets up, and what its checks do
  local_agent_control_sock, \* the broker's end of the agent socketpair
  aborted,                 \* a CHECK or LOG(FATAL) has ended the process
  attach_calls,            \* calls of Runtime::AttachAgent so far
  pid,                     \* what getpid() returns
  pid_sent,                \* the bytes last handed to send() for the PID
  open_dups,               \* descriptors made by dup in SendAgentFds and not yet closed
  \* the poll-loop thread
  wpc,                     \* its position in RunPollLoop
  sleep_ms,                \* local of SetupAdbConnection
  maybe_send_fds,          \* local of the control-socket branch
  \* ScopedEventFdLock::data_ of the lock object each thread has on its stack
  lk_data,
  \* the DDM publishing threads: position, arguments and locals of the call of
  \* PublishDdmData each one is in
  ppc,
  ddm_call,                \* type and data.size() of the call
  pkt,                     \* the header array on the caller's stack
  writev_res,              \* what writev returned
  wire,                    \* what has been handed to writev, in order
  \* environment
  adbd_queue,              \* datagrams the daemon has sent on the control socket
  adbd_hup,                \* the daemon has closed its end of the control socket
  agent_queue,             \* datagrams the agent has sent on its control socket
  conn_data,               \* the debugger has sent bytes nobody has read yet
  next_fd,                 \* next debugger descriptor the daemon will transfer
  offered_while_connected, \* descriptors sent by the daemon while a connection was held
  \* observation of the last step
  ev,                      \* what the last step did
  scenario                 \* progress through the adopt/send/accept/close round trip

vars == <<sleep_event_fd, adb_write_event_fd, control_sock, adb_connection_socket,
          shutting_down, agent_loaded, agent_listening, agent_has_socket,
          sent_agent_fds, next_ddm_id, destroyed, local_agent_control_sock, aborted,
          attach_calls, pid, pid_sent, open_dups, wpc, sleep_ms, maybe_send_fds, lk_data, ppc, ddm_call, pkt, writev_res, wire, adbd_queue, adbd_hup, agent_queue, conn_data,
          next_fd, offered_while_connected, ev, scenario>>

fields == <<sleep_event_fd, adb_write_event_fd, control_sock, adb_connection_socket,
            shutting_down, agent_loaded, agent_listening, agent_has_socket,
            sent_agent_fds, next_ddm_id>>
flags == <<agent_loaded, agent_listening, agent_has_socket, sent_agent_fds>>
envvars == <<adbd_queue, adbd_hup, agent_queue, conn_data, next_fd,
             offered_while_connected>>
producervars == <<ppc, ddm_call, pkt, writev_res, wire>>
lifevars == <<local_agent_control_sock, aborted, attach_calls, pid, pid_sent>>
procvars == <<lifevars, open_dups>>
ddmlocals == <<ddm_call, pkt, writev_res>>

\* An event record: the operation, the call site or input, and its outcome.
Ev(op, site, res) == [op |-> op, site |-> site, res |-> res]
NoEv == Ev("-", "-", "-")


(* ------------------------- construction -------------------------------- *)
\* AdbConnectionState::AdbConnectionState: every descriptor starts at -1 and
\* shutting_down_, agent_loaded_, agent_listening_ start false; the
\* initializer list names neither agent_has_socket_ nor sent_agent_fds_, so
\* the object starts with whatever those two bytes hold.
AdbConnectionState_ctor ==
  /\ sleep_event_fd = NoFd
  /\ control_sock = NoFd
  /\ adb_connection_socket = NoFd
  /\ adb_write_event_fd = NoFd
  /\ shutting_down = FALSE
  /\ agent_loaded = FALSE
  /\ agent_listening = FALSE
  /\ agent_has_socket \in BOOLEAN
  /\ sent_agent_fds \in BOOLEAN
  /\ next_ddm_id = [hi |-> 0, lo |-> 1]

\* No thread is inside PublishDdmData.
NoCall == [type |-> Uint32(0, 0), size |-> 0]
PublishersIdle ==
  /\ ppc = [p \in Producers |-> "idle"]
  /\ ddm_call = [p \in Producers |-> NoCall]
  /\ pkt = [p \in Producers |-> <<>>]
  /\ writev_res = [p \in Producers |-> "none"]

\* ArtPlugin_Initialize: gState = new AdbConnectionState(...); no thread runs yet.
Init ==
  /\ AdbConnectionState_ctor
  /\ destroyed = FALSE
  /\ local_agent_control_sock = NoFd
  /\ aborted = FALSE
  /\ attach_calls = 0
  /\ pid \in SamplePids
  /\ pid_sent = <<>>
  /\ open_dups = 0
  /\ wpc = "unborn"
  /\ sleep_ms = kSleepStartMs
  /\ maybe_send_fds = FALSE
  /\ lk_data = [t \in Threads |-> 0]
  /\ PublishersIdle
  /\ wire = <<>>
  /\ adbd_queue = <<>>
  /\ adbd_hup = FALSE
  /\ agent_queue = <<>>
  /\ conn_data = FALSE
  /\ next_fd = 1
  /\ offered_while_connected = {}
  /\ ev = NoEv
  /\ scenario = 0

(* ------------------------- ScopedEventFdLock --------------------------- *)
\* read(2) on an eventfd blocks while its counter is 0.
EventFdReadable_NonBlocking(counter) == TRUE
EventFdReadable(counter) == counter # kEventfdLocked

\* The constructor: read the counter into data_, which leaves the counter 0.
ScopedEventFdLock_ctor(t) ==
  /\ EventFdReadable(adb_write_event_fd)
  /\ lk_data' = [lk_data EXCEPT ![t] = adb_write_event_fd]
  /\ adb_write_event_fd' = kEventfdLocked

\* The destructor: write data_ back, which adds it to the counter.
ScopedEventFdLock_dtor_NoWrite(t) ==
  /\ UNCHANGED adb_write_event_fd
  /\ lk_data' = [lk_data EXCEPT ![t] = 0]
ScopedEventFdLock_dtor(t) ==
  /\ adb_write_event_fd' = adb_write_event_fd + lk_data[t]
  /\ lk_data' = [lk_data EXCEPT ![t] = 0]

(* ------------------------- round-trip monitor -------------------------- *)
\* Steps of the worker that handle no event.
Plumbing == {"plumb", "wake"}

\* Progress through: descriptor adopted with the agent loaded and listening (1),
\* descriptors sent to the agent (2), ds-accept handled (3), ds-close handled (4).
ScenarioAfter(e) ==
  IF e.op = "adopt"
    THEN IF agent_loaded /\ agent_listening THEN 1 ELSE 0
  ELSE IF e.op = "SendAgentFds"
    THEN IF scenario = 1 /\ e.site = "adopt" /\ e.res = "ok" THEN 2 ELSE 0
  ELSE IF e.op = "agent-msg"
    THEN IF scenario = 2 /\ e.site = kAcceptMessage THEN 3
         ELSE IF scenario = 3 /\ e.site = kCloseMessage THEN 4
         ELSE 0
  ELSE IF e.op \in Plumbing
    THEN IF scenario = 4 THEN 0 ELSE scenario
  ELSE 0

\* Every step of the worker records its event and advances the monitor.
Emit(e) ==
  /\ ev' = e
  /\ scenario' = ScenarioAfter(e)

\* Steps of the publishing threads and of the environment leave the record of
\* the worker's last event as it is.
Quiet == UNCHANGED <<ev, scenario>>


(* ------------------------- worker helpers ------------------------------ *)
\* How a call of StartDebuggerThreads can go: one of the two eventfds or the
\* socketpair cannot be created, the runtime is shutting down, pthread_create
\* fails, or the poll-loop thread is spawned.
StartFailures == {"wakeup-eventfd", "write-lock-eventfd", "socketpair"}
StartOutcomes == StartFailures \cup {"runtime-shutdown", "pthread_create", "spawned"}

\* CHECK_NE and PLOG(FATAL) abort the process.
FatalAborts_LogsAndReturns == FALSE
FatalAborts == TRUE

\* The CHECK_EQs of StartDebuggerThreads hold; the eventfds and the socketpair
\* are created in this order, each failure being fatal; then the poll-loop
\* thread is spawned unless the runtime is shutting down or pthread_create
\* fails.  Nothing runs in a process that has aborted.
StartDebuggerThreads ==
  /\ ~aborted
  /\ ~destroyed
  /\ wpc = "unborn"
  /\ sleep_event_fd = NoFd /\ adb_write_event_fd = NoFd
  /\ local_agent_control_sock = NoFd
  /\ \E outcome \in StartOutcomes :
       /\ sleep_event_fd' =
            IF outcome = "wakeup-eventfd" THEN NoFd ELSE kEventfdLocked
       /\ adb_write_event_fd' =
            IF outcome \in {"wakeup-eventfd", "write-lock-eventfd"}
              THEN NoFd ELSE kEventfdUnlocked
       /\ local_agent_control_sock' =
            IF outcome \in StartFailures THEN NoFd ELSE AgentFd
       /\ aborted' = (outcome \in StartFailures /\ FatalAborts)
       /\ wpc' = IF outcome = "spawned" THEN "outer"
                 ELSE IF outcome \in StartFailures /\ FatalAborts THEN "unborn"
                 ELSE "nothread"
  /\ UNCHANGED <<control_sock, adb_connection_socket, shutting_down, flags,
                 next_ddm_id, destroyed, attach_calls, pid, pid_sent, open_dups, sleep_ms,
                 maybe_send_fds, lk_data, producervars, envvars>>
  /\ Quiet

\* sleep_ms += (sleep_ms >> 1), capped at sleep_max_ms.
NextSleep_NoCap(ms) == ms + (ms \div 2)
NextSleep(ms) ==
  LET n == ms + (ms \div 2) IN IF n > kSleepMaxMs THEN kSleepMaxMs ELSE n

\* FdSet { read_fd, write_fd, write_lock_fd }: the descriptors SendAgentFds
\* makes with dup.
kFdSetFds == 3

\* The unique_fd locals close what they hold when SendAgentFds returns.
UniqueFdsClosed_OnSuccessOnly(n, ok) == IF ok THEN n - kFdSetFds ELSE n
UniqueFdsClosed(n, ok) == n - kFdSetFds

\* sendmsg succeeded: sent_agent_fds_ = true; it failed: only a log line.
SentAfterSendmsg_Always(sent, ok) == TRUE
SentAfterSendmsg(sent, ok) == IF ok THEN TRUE ELSE sent

\* SendAgentFds: three duplicates are made, sent with sendmsg and closed on
\* return; only a send that succeeded sets sent_agent_fds_.
SendAgentFds(ok) ==
  /\ sent_agent_fds' = SentAfterSendmsg(sent_agent_fds, ok)
  /\ open_dups' = UniqueFdsClosed(open_dups + kFdSetFds, ok)

\* What poll reports for the four slots.  A slot whose descriptor is -1 is
\* ignored by poll.
WakeReady == sleep_event_fd # NoFd /\ sleep_event_fd > 0
AgentReady == agent_loaded /\ agent_queue # <<>>
\* The control slot is tested in the else of the agent slot's test.
ControlYields_Never == FALSE
ControlYields == AgentReady
ControlWatched_Always == TRUE
ControlWatched == adb_connection_socket = NoFd
ControlIn == ControlWatched /\ adbd_queue # <<>>
ControlHup == ControlWatched /\ adbd_hup
ConnWatched == ~agent_has_socket /\ ~sent_agent_fds
ConnIn_WithoutData == ConnWatched /\ adb_connection_socket # NoFd
ConnIn == ConnWatched /\ adb_connection_socket # NoFd /\ conn_data

\* control_sock_ == -1 in the outer loop: a control socket has to be set up.
SetupNeeded(sock) == sock = NoFd

\* sizeof(pid_t): the number of bytes of the PID string handed to send.
sizeof_pid_t == 4

\* The digits of %x.
HexDigits ==
  <<"0", "1", "2", "3", "4", "5", "6", "7", "8", "9", "a", "b", "c", "d", "e", "f">>

\* %x: the hexadecimal digits of n, the most significant first, no padding.
RECURSIVE HexOf(_)
HexOf(n) ==
  IF n < 16 THEN <<HexDigits[n + 1]>>
  ELSE HexOf(n \div 16) \o <<HexDigits[(n % 16) + 1]>>

\* %04x: padded with zeros up to four characters, never cut.
Printf04x(n) ==
  LET h == HexOf(n) IN
  IF Len(h) >= 4 THEN h ELSE [i \in 1..(4 - Len(h)) |-> "0"] \o h

\* snprintf(buff, size, ...): at most size - 1 characters are stored.
Snprintf(str, size) ==
  IF Len(str) <= size - 1 THEN str ELSE SubSeq(str, 1, size - 1)

\* char buff[sizeof(pid_t) + 1] after snprintf(buff, sizeof(buff), "%04x", getpid()),
\* of which send() is given the first sizeof(pid_t) bytes.
PidBytes(n) ==
  LET buff == Snprintf(Printf04x(n), sizeof_pid_t + 1) IN
  SubSeq(buff, 1, sizeof_pid_t)

\* What send can return for the PID: an error, fewer bytes, or all of them.
PidSendResults == {-1, 2, sizeof_pid_t}

\* What one turn of the loop in SetupAdbConnection comes to, from the result of
\* connect, of the trust check and of the send of the PID.
SetupOutcome_NoTrustCheck(connected, trusted, sent) ==
  IF ~connected THEN "refused"
  ELSE IF sent = sizeof_pid_t THEN "ok"
  ELSE "short"
SetupOutcome(connected, trusted, sent) ==
  IF ~connected THEN "refused"
  ELSE IF ~trusted THEN "untrusted"
  ELSE IF sent = sizeof_pid_t THEN "ok"
  ELSE "short"

\* The return after the peer was found not to be trusted, and the one after a
\* PID send that was not sizeof(pid_t) bytes: both make RunPollLoop return.
AfterUntrustedPeer == "done"
AfterShortPidSend_Reconnect == "outer"
AfterShortPidSend == "done"

\* A failed connect sleeps and goes round the loop of SetupAdbConnection again.
AfterConnectFailure_GiveUp == "done"
AfterConnectFailure == "setup"

\* if (!agent_loaded_): the agent has to be attached; after an attach that left
\* no exception, agent_loaded_ = true.
LoadNeeded(loaded) == ~loaded
AgentLoadedAfterAttach_NotRecorded == FALSE
AgentLoadedAfterAttach == TRUE

\* AttachAgent left an exception pending: it is dumped and cleared, and
\* RunPollLoop returns.
AfterAttachFailure_Continue == "inner"
AfterAttachFailure == "done"

\* The break after a failed receive leaves the inner loop for the outer loop's
\* check.
AfterRecvFailBreak_Return == "done"
AfterRecvFailBreak == "outer"

\* So does the break of the POLLRDHUP branch.
AfterHangupBreak_Return == "done"
AfterHangupBreak == "outer"

\* maybe_send_fds && agent_loaded_ && agent_listening_, after the control branch.
HandoffConditions_NoListening == maybe_send_fds /\ agent_loaded
HandoffConditions == maybe_send_fds /\ agent_loaded /\ agent_listening

\* if (adb_connection_socket_ != -1) SendAgentFds(); in the ds-listen-start branch.
ListenStartSends_Never(sock) == FALSE
ListenStartSends(sock) == sock # NoFd

\* The ds-accept branch.
HandleAccept_KeepSent ==
  /\ agent_has_socket' = TRUE
  /\ UNCHANGED sent_agent_fds
HandleAccept ==
  /\ agent_has_socket' = TRUE
  /\ sent_agent_fds' = FALSE

\* The worker runs on a live object.
WorkerAt(pc) == ~destroyed /\ wpc = pc

\* The control socket is closed: what the daemon had queued on it is gone.
ResetControlSock_KeepOpen ==
  /\ control_sock' = control_sock
  /\ adbd_queue' = <<>>
  /\ adbd_hup' = FALSE
ResetControlSock ==
  /\ control_sock' = NoFd
  /\ adbd_queue' = <<>>
  /\ adbd_hup' = FALSE

(* ------------------------- RunPollLoop --------------------------------- *)
\* while (!shutting_down_) { if (control_sock_ == -1 && !SetupAdbConnection()) return;
\* The call creates the socket first; a failure of socket() returns false.
W_Outer ==
  /\ WorkerAt("outer")
  /\ IF shutting_down
       THEN wpc' = "done" /\ sleep_ms' = sleep_ms /\ Emit(Ev("exit", "shutting_down", "-"))
     ELSE IF SetupNeeded(control_sock)
       THEN \E sock_ok \in BOOLEAN :
              IF sock_ok
                THEN wpc' = "setup" /\ sleep_ms' = kSleepStartMs
                     /\ Emit(Ev("plumb", "-", "-"))
                ELSE wpc' = "done" /\ sleep_ms' = sleep_ms
                     /\ Emit(Ev("exit", "setup", "socket"))
     ELSE wpc' = "inner" /\ sleep_ms' = sleep_ms /\ Emit(Ev("plumb", "-", "-"))
  /\ UNCHANGED <<fields, destroyed, procvars, maybe_send_fds, lk_data, producervars, envvars>>

\* One turn of the loop in SetupAdbConnection.  sleep_ms is a local of the
\* call: it is written as its initial value again once the call has returned.
W_Setup ==
  /\ WorkerAt("setup")
  /\ IF shutting_down
       THEN /\ wpc' = "done"
            /\ sleep_ms' = kSleepStartMs
            /\ Emit(Ev("exit", "setup", "shutting_down"))
            /\ UNCHANGED <<control_sock, adbd_queue, adbd_hup, pid_sent>>
       ELSE \E connected \in BOOLEAN, trusted \in BOOLEAN, sent \in PidSendResults :
              LET outcome == SetupOutcome(connected, trusted, sent) IN
              /\ pid_sent' = IF outcome \in {"short", "ok"} THEN PidBytes(pid)
                                                             ELSE pid_sent
              /\ CASE outcome = "refused" ->
                     /\ sleep_ms' = NextSleep(sleep_ms)
                     /\ wpc' = AfterConnectFailure
                     /\ Emit(Ev("plumb", "-", "-"))
                     /\ UNCHANGED <<control_sock, adbd_queue, adbd_hup>>
                [] outcome \in {"untrusted", "short"} ->
                     /\ wpc' = IF outcome = "short" THEN AfterShortPidSend
                                                    ELSE AfterUntrustedPeer
                     /\ sleep_ms' = kSleepStartMs
                     /\ Emit(Ev("exit", "setup", outcome))
                     /\ UNCHANGED <<control_sock, adbd_queue, adbd_hup>>
                [] outcome = "ok" ->
                     /\ control_sock' = ControlFd
                     /\ adbd_queue' = <<>>
                     /\ adbd_hup' = FALSE
                     /\ wpc' = "inner"
                     /\ sleep_ms' = kSleepStartMs
                     /\ Emit(Ev("connected",
                                IF trusted THEN "trusted" ELSE "untrusted",
                                IF sent = sizeof_pid_t THEN "full" ELSE "short"))
  /\ UNCHANGED <<sleep_event_fd, adb_write_event_fd, adb_connection_socket,
                 shutting_down, flags, next_ddm_id, destroyed, local_agent_control_sock,
                 aborted, attach_calls, pid, open_dups, maybe_send_fds, lk_data,
                 producervars, agent_queue, conn_data, next_fd, offered_while_connected>>

\* while (!shutting_down_ && control_sock_ != -1) { ... poll(...)
W_Inner ==
  /\ WorkerAt("inner")
  /\ wpc' = IF ~shutting_down /\ control_sock # NoFd THEN "poll" ELSE "outer"
  /\ Emit(Ev("plumb", "-", "-"))
  /\ UNCHANGED <<fields, destroyed, procvars, sleep_ms, maybe_send_fds, lk_data,
                 producervars, envvars>>

\* poll fails with something other than EINTR: the worker returns.
W_PollFail ==
  /\ WorkerAt("poll")
  /\ wpc' = "done"
  /\ Emit(Ev("exit", "poll", "-"))
  /\ UNCHANGED <<fields, destroyed, procvars, sleep_ms, maybe_send_fds, lk_data,
                 producervars, envvars>>

\* Agent slot has POLLIN: read one datagram and act on it.  A failed recv
\* continues the loop.  ds-close goes on in CloseFds.  The terminator is written
\* at buf[res + 1]: for a datagram of sizeof(buf) - 1 bytes that is one past the
\* end of buf, a write outside the array, after which the byte may have landed
\* in padding or the thread may do anything.
W_AgentMessage ==
  /\ WorkerAt("poll")
  /\ AgentReady
  /\ \E recv_ok \in BOOLEAN, send_ok \in BOOLEAN :
       LET m == Head(agent_queue) IN
       IF ~recv_ok
         THEN /\ wpc' = "inner"
              /\ Emit(Ev("agent-recv-fail", "-", "-"))
              /\ UNCHANGED <<flags, agent_queue, open_dups>>
         ELSE
           /\ agent_queue' = Tail(agent_queue)
           /\ CASE OutOfBuf(TerminatorIndex(RecvLen(m))) ->
                     \E harmless \in BOOLEAN :
                       IF harmless
                         THEN /\ wpc' = "inner"
                              /\ Emit(Ev("agent-msg", m, "-"))
                              /\ UNCHANGED <<flags, open_dups>>
                         ELSE /\ wpc' = "undefined"
                              /\ Emit(Ev("agent-msg", m, "overrun"))
                              /\ agent_loaded' \in BOOLEAN
                              /\ agent_listening' \in BOOLEAN
                              /\ agent_has_socket' \in BOOLEAN
                              /\ sent_agent_fds' \in BOOLEAN
                              /\ UNCHANGED open_dups
                [] m = kListenStartMessage ->
                     /\ agent_listening' = TRUE
                     /\ IF ListenStartSends(adb_connection_socket)
                          THEN /\ SendAgentFds(send_ok)
                               /\ Emit(Ev("SendAgentFds", "listen-start",
                                          IF send_ok THEN "ok" ELSE "fail"))
                          ELSE /\ UNCHANGED <<sent_agent_fds, open_dups>>
                               /\ Emit(Ev("agent-msg", m, "-"))
                     /\ wpc' = "inner"
                     /\ UNCHANGED <<agent_loaded, agent_has_socket>>
                [] m = kListenEndMessage ->
                     /\ agent_listening' = FALSE
                     /\ wpc' = "inner"
                     /\ Emit(Ev("agent-msg", m, "-"))
                     /\ UNCHANGED <<agent_loaded, agent_has_socket, sent_agent_fds, open_dups>>
                [] m = kCloseMessage ->
                     /\ wpc' = "close_lock"
                     /\ Emit(Ev("plumb", "-", "-"))
                     /\ UNCHANGED <<flags, open_dups>>
                [] m = kAcceptMessage ->
                     /\ HandleAccept
                     /\ wpc' = "inner"
                     /\ Emit(Ev("agent-msg", m, "-"))
                     /\ UNCHANGED <<agent_loaded, agent_listening, open_dups>>
                [] OTHER ->
                     /\ wpc' = "inner"
                     /\ Emit(Ev("agent-msg", m, "-"))
                     /\ UNCHANGED <<flags, open_dups>>
  /\ UNCHANGED <<sleep_event_fd, adb_write_event_fd, control_sock,
                 adb_connection_socket, shutting_down, next_ddm_id, destroyed, lifevars,
                 sleep_ms, maybe_send_fds, lk_data, producervars, adbd_queue,
                 adbd_hup, conn_data, next_fd, offered_while_connected>>


\* CloseFds: take the write lock, ...
W_CloseFdsLock ==
  /\ WorkerAt("close_lock")
  /\ ScopedEventFdLock_ctor(Worker)
  /\ wpc' = "close_reset"
  /\ Emit(Ev("plumb", "-", "-"))
  /\ UNCHANGED <<sleep_event_fd, control_sock, adb_connection_socket, shutting_down,
                 flags, next_ddm_id, destroyed, procvars, sleep_ms, maybe_send_fds,
                 producervars, envvars>>

\* ... adb_connection_socket_.reset(), ...
W_CloseFdsReset ==
  /\ WorkerAt("close_reset")
  /\ adb_connection_socket' = NoFd
  /\ conn_data' = FALSE
  /\ wpc' = "close_unlock"
  /\ Emit(Ev("plumb", "-", "-"))
  /\ UNCHANGED <<sleep_event_fd, adb_write_event_fd, control_sock, shutting_down,
                 flags, next_ddm_id, destroyed, procvars, sleep_ms, maybe_send_fds, lk_data,
                 producervars, adbd_queue, adbd_hup, agent_queue, next_fd,
                 offered_while_connected>>

\* ... release it on return; back in the loop, agent_has_socket_ = false.
W_CloseFdsUnlock ==
  /\ WorkerAt("close_unlock")
  /\ ScopedEventFdLock_dtor(Worker)
  /\ agent_has_socket' = FALSE
  /\ wpc' = "inner"
  /\ Emit(Ev("agent-msg", kCloseMessage, "-"))
  /\ UNCHANGED <<sleep_event_fd, control_sock, adb_connection_socket, shutting_down,
                 agent_loaded, agent_listening, sent_agent_fds, next_ddm_id,
                 destroyed, procvars, sleep_ms, maybe_send_fds, producervars, envvars>>

\* Control slot has POLLIN (a datagram is queued, or the daemon has hung up and
\* the socket reads end-of-file): the branch starts by taking the write lock.
W_ControlIn ==
  /\ WorkerAt("poll")
  /\ ~ControlYields
  /\ ControlIn \/ ControlHup
  /\ wpc' = "d_lock"
  /\ maybe_send_fds' = FALSE
  /\ Emit(Ev("plumb", "-", "-"))
  /\ UNCHANGED <<fields, destroyed, procvars, sleep_ms, lk_data, producervars, envvars>>

W_ControlLock ==
  /\ WorkerAt("d_lock")
  /\ ScopedEventFdLock_ctor(Worker)
  /\ wpc' = "d_recv"
  /\ Emit(Ev("plumb", "-", "-"))
  /\ UNCHANGED <<sleep_event_fd, control_sock, adb_connection_socket, shutting_down,
                 flags, next_ddm_id, destroyed, procvars, sleep_ms, maybe_send_fds,
                 producervars, envvars>>

\* ReadFdFromAdb: -1 when recvmsg returns <= 0; otherwise the int left in the
\* control buffer, which was preset to -1 and stays -1 when the datagram
\* carried no descriptor.
ReadFdFromAdb_NoPreset(rc_positive) ==
  IF rc_positive /\ adbd_queue # <<>> THEN Head(adbd_queue) ELSE NoFd
ReadFdFromAdb(rc_positive) ==
  IF rc_positive /\ adbd_queue # <<>>
    THEN IF Head(adbd_queue) = 0 THEN NoFd ELSE Head(adbd_queue)
    ELSE NoFd

\* Inside the lock: receive, then fail / drop a second debugger / adopt.
W_ControlRecv ==
  /\ WorkerAt("d_recv")
  /\ \E rc_positive \in BOOLEAN :
       LET new_fd == ReadFdFromAdb(rc_positive) IN
       IF new_fd = NoFd
         THEN /\ ResetControlSock
              /\ wpc' = "d_unlock_break"
              /\ Emit(Ev("recv-fail", "-",
                         IF rc_positive /\ adbd_queue # <<>> THEN "no-fd" ELSE "rc"))
              /\ UNCHANGED <<adb_connection_socket, maybe_send_fds, conn_data>>
         ELSE
           /\ adbd_queue' = Tail(adbd_queue)
           /\ wpc' = "d_unlock"
           /\ UNCHANGED <<control_sock, adbd_hup>>
           /\ IF adb_connection_socket # NoFd
                THEN /\ Emit(Ev("drop-second", "-", "-"))
                     /\ UNCHANGED <<adb_connection_socket, maybe_send_fds, conn_data>>
                ELSE /\ adb_connection_socket' = new_fd
                     /\ maybe_send_fds' = TRUE
                     /\ conn_data' = FALSE
                     /\ Emit(Ev("adopt", "-", "-"))
  /\ UNCHANGED <<sleep_event_fd, adb_write_event_fd, shutting_down, flags,
                 next_ddm_id, destroyed, procvars, sleep_ms, lk_data, producervars,
                 agent_queue, next_fd, offered_while_connected>>

\* The lock's scope ends, also when it is left by break.
W_ControlUnlock ==
  /\ ~destroyed
  /\ wpc \in {"d_unlock", "d_unlock_break"}
  /\ ScopedEventFdLock_dtor(Worker)
  /\ wpc' = IF wpc = "d_unlock_break" THEN AfterRecvFailBreak ELSE "d_after"
  /\ Emit(Ev("plumb", "-", "-"))
  /\ UNCHANGED <<sleep_event_fd, control_sock, adb_connection_socket, shutting_down,
                 flags, next_ddm_id, destroyed, procvars, sleep_ms, maybe_send_fds,
                 producervars, envvars>>

\* if (maybe_send_fds && agent_loaded_ && agent_listening_) SendAgentFds();
W_ControlAfter ==
  /\ WorkerAt("d_after")
  /\ IF HandoffConditions
       THEN \E send_ok \in BOOLEAN :
              /\ SendAgentFds(send_ok)
              /\ Emit(Ev("SendAgentFds", "adopt", IF send_ok THEN "ok" ELSE "fail"))
       ELSE /\ UNCHANGED <<sent_agent_fds, open_dups>>
            /\ Emit(Ev("plumb", "-", "-"))
  /\ wpc' = "inner"
  /\ maybe_send_fds' = FALSE
  /\ UNCHANGED <<sleep_event_fd, adb_write_event_fd, control_sock,
                 adb_connection_socket, shutting_down, agent_loaded, agent_listening,
                 agent_has_socket, next_ddm_id, destroyed, lifevars, sleep_ms, lk_data,
                 producervars, envvars>>

\* Control slot has POLLRDHUP without POLLIN: drop the control socket, break.
W_ControlHup ==
  /\ WorkerAt("poll")
  /\ ~ControlYields
  /\ ~ControlIn
  /\ ControlHup
  /\ ResetControlSock
  /\ wpc' = AfterHangupBreak
  /\ Emit(Ev("rdhup", "-", "-"))
  /\ UNCHANGED <<sleep_event_fd, adb_write_event_fd, adb_connection_socket,
                 shutting_down, flags, next_ddm_id, destroyed, procvars, sleep_ms,
                 maybe_send_fds, lk_data, producervars, agent_queue, conn_data,
                 next_fd, offered_while_connected>>

\* Connection slot has POLLIN: load the agent, or send it the descriptors again.
W_ConnIn ==
  /\ WorkerAt("poll")
  /\ ~AgentReady
  /\ ~ControlIn
  /\ ~ControlHup
  /\ ConnIn
  /\ IF LoadNeeded(agent_loaded)
       THEN \E attached \in BOOLEAN :
              /\ attach_calls' = IF attach_calls < MaxAttachCalls
                                   THEN attach_calls + 1 ELSE attach_calls
              /\ IF attached
                THEN /\ agent_loaded' = AgentLoadedAfterAttach
                     /\ wpc' = "inner"
                     /\ Emit(Ev("load-agent", "-", "ok"))
                     /\ UNCHANGED <<sent_agent_fds, open_dups>>
                ELSE /\ wpc' = AfterAttachFailure
                     /\ Emit(Ev("exit", "load-agent", "-"))
                     /\ UNCHANGED <<agent_loaded, sent_agent_fds, open_dups>>
     ELSE IF agent_listening /\ ~sent_agent_fds
       THEN \E send_ok \in BOOLEAN :
              /\ SendAgentFds(send_ok)
              /\ wpc' = "inner"
              /\ Emit(Ev("SendAgentFds", "conn-data", IF send_ok THEN "ok" ELSE "fail"))
              /\ UNCHANGED <<agent_loaded, attach_calls>>
     ELSE /\ wpc' = "inner"
          /\ Emit(Ev("conn-data", "-", "-"))
          /\ UNCHANGED <<agent_loaded, sent_agent_fds, attach_calls, open_dups>>
  /\ UNCHANGED <<sleep_event_fd, adb_write_event_fd, control_sock,
                 adb_connection_socket, shutting_down, agent_listening,
                 agent_has_socket, next_ddm_id, destroyed, local_agent_control_sock,
                 aborted, pid, pid_sent, sleep_ms, maybe_send_fds, lk_data, producervars, envvars>>

\* Only the wakeup slot is ready: "Woke up poll without anything to do!".
W_Wake ==
  /\ WorkerAt("poll")
  /\ ~AgentReady /\ ~ControlIn /\ ~ControlHup /\ ~ConnIn
  /\ WakeReady
  /\ wpc' = "inner"
  /\ Emit(Ev("wake", "-", "-"))
  /\ UNCHANGED <<fields, destroyed, procvars, sleep_ms, maybe_send_fds, lk_data,
                 producervars, envvars>>


(* ------------------------- PublishDdmData ------------------------------ *)
\* NextDdmId: next_ddm_id_++ on a uint32_t, which wraps from 2^32 - 1 to 0 ...
NextDdmId_Counter_NoIncrement(id) == id
NextDdmId_Counter(id) ==
  IF id.lo = kLow31Max
    THEN Uint32(1 - id.hi, 0)
    ELSE Uint32(id.hi, id.lo + 1)

\* ... and the value returned: the counter before the increment | 0x80000000.
NextDdmId_AddSignBit(id) == Uint32(1 - id.hi, id.lo)
NextDdmId(id) == Uint32(1, id.lo)

\* htonl of a uint32_t stored through a uint32_t*: four bytes, the most
\* significant first.
BigEndian_LittleEndian(u) ==
  <<u.lo % 256, (u.lo \div 256) % 256, (u.lo \div 65536) % 256,
    u.hi * 128 + (u.lo \div 16777216)>>
BigEndian(u) ==
  <<u.hi * 128 + (u.lo \div 16777216), (u.lo \div 65536) % 256,
    (u.lo \div 256) % 256, u.lo % 256>>

\* A size_t below 2^31 converted to uint32_t.
SizeToUint32(n) == Uint32(0, n)

\* The length written first: kDdmPacketHeaderSize + data.size().
PacketLength_PayloadOnly(size) == size
PacketLength(size) == kDdmPacketHeaderSize + size

\* The bytes stored through pkt_data, in order: length, id, flags, command set,
\* command, type, data.size().
HeaderWrites(id, type, size) ==
  BigEndian(SizeToUint32(PacketLength(size)))
    \o BigEndian(id)
    \o <<0, kJDWPDdmCmdSet, kJDWPDdmCmd>>
    \o BigEndian(type)
    \o BigEndian(SizeToUint32(size))

\* std::array<uint8_t, kDdmPacketHeaderSize> pkt after those stores; a byte
\* that no store reached keeps the indeterminate value it started with.
HeaderArray(id, type, size, junk) ==
  LET w == HeaderWrites(id, type, size) IN
  [i \in 1..kDdmPacketHeaderSize |-> IF i <= Len(w) THEN w[i] ELSE junk]

\* The iovec lengths handed to writev: pkt.size() and data.size().
IovTotal_HeaderOnly(header, size) == Len(header)
IovTotal(header, size) == Len(header) + size

\* What writev can return: all bytes, fewer, or -1.
WritevResults == {"full", "short", "fail"}

\* if (adb_connection_socket_ == -1): nothing is sent.
ConnectionAbsent_NotChecked(sock) == FALSE
ConnectionAbsent(sock) == sock = NoFd

\* adb_connection_socket_ after the result of writev was compared with the
\* packet size: either branch only logs.
AfterWritev_CloseOnError(res, sock) == IF res = "full" THEN sock ELSE NoFd
AfterWritev(res, sock) == sock

\* Ids NextDdmId has handed out so far in this behaviour.
IdsTaken == Len(wire) + Cardinality({q \in Producers : ppc[q] = "write"})

\* DdmPublishChunk is called on some runtime thread; the callback exists once
\* StartDebuggerThreads has registered it.
P_Call(p, type, size) ==
  /\ ~aborted
  /\ ~destroyed
  /\ adb_write_event_fd # NoFd
  /\ ppc[p] = "idle"
  /\ IdsTaken < MaxDdmWrites
  /\ ppc' = [ppc EXCEPT ![p] = "lock"]
  /\ ddm_call' = [ddm_call EXCEPT ![p] = [type |-> type, size |-> size]]
  /\ UNCHANGED <<fields, destroyed, procvars, wpc, sleep_ms, maybe_send_fds, lk_data, envvars,
                 pkt, writev_res, wire>>
  /\ Quiet

\* ScopedEventFdLock lk(adb_write_event_fd_);
P_Lock(p) ==
  /\ ~destroyed
  /\ ppc[p] = "lock"
  /\ ScopedEventFdLock_ctor(p)
  /\ ppc' = [ppc EXCEPT ![p] = "check"]
  /\ UNCHANGED <<sleep_event_fd, control_sock, adb_connection_socket, shutting_down,
                 flags, next_ddm_id, destroyed, procvars, wpc, sleep_ms, maybe_send_fds, envvars,
                 ddmlocals, wire>>
  /\ Quiet

\* if (adb_connection_socket_ == -1) return;  otherwise the header is built,
\* which takes the next id.
P_Check(p) ==
  /\ ~destroyed
  /\ ppc[p] = "check"
  /\ IF ConnectionAbsent(adb_connection_socket)
       THEN /\ ppc' = [ppc EXCEPT ![p] = "drop"]
            /\ UNCHANGED <<next_ddm_id, pkt>>
       ELSE /\ ppc' = [ppc EXCEPT ![p] = "write"]
            /\ next_ddm_id' = NextDdmId_Counter(next_ddm_id)
            /\ \E junk \in {0, 255} :
                 pkt' = [pkt EXCEPT ![p] =
                           HeaderArray(NextDdmId(next_ddm_id), ddm_call[p].type,
                                       ddm_call[p].size, junk)]
  /\ UNCHANGED <<sleep_event_fd, adb_write_event_fd, control_sock,
                 adb_connection_socket, shutting_down, flags, destroyed, procvars, wpc,
                 sleep_ms, maybe_send_fds, lk_data, envvars, ddm_call, writev_res, wire>>
  /\ Quiet

\* writev(adb_connection_socket_, iovs, 2): complete, short or failed, the
\* function only logs the result.
P_Write(p) ==
  /\ ~destroyed
  /\ ppc[p] = "write"
  /\ ppc' = [ppc EXCEPT ![p] = "unlock"]
  /\ wire' = Append(wire, [fd |-> adb_connection_socket, header |-> pkt[p],
                           size |-> ddm_call[p].size,
                           len |-> IovTotal(pkt[p], ddm_call[p].size)])
  /\ \E res \in WritevResults :
       /\ writev_res' = [writev_res EXCEPT ![p] = res]
       /\ adb_connection_socket' = AfterWritev(res, adb_connection_socket)
  /\ UNCHANGED <<sleep_event_fd, adb_write_event_fd, control_sock, shutting_down,
                 flags, next_ddm_id, destroyed, procvars, wpc, sleep_ms, maybe_send_fds, lk_data,
                 envvars, ddm_call, pkt>>
  /\ Quiet

\* Return: the lock's destructor runs, the call's locals are gone.
P_Unlock(p) ==
  /\ ~destroyed
  /\ ppc[p] \in {"drop", "unlock"}
  /\ ScopedEventFdLock_dtor(p)
  /\ ppc' = [ppc EXCEPT ![p] = "idle"]
  /\ ddm_call' = [ddm_call EXCEPT ![p] = NoCall]
  /\ pkt' = [pkt EXCEPT ![p] = <<>>]
  /\ writev_res' = [writev_res EXCEPT ![p] = "none"]
  /\ UNCHANGED <<sleep_event_fd, control_sock, adb_connection_socket, shutting_down,
                 flags, next_ddm_id, destroyed, procvars, wpc, sleep_ms, maybe_send_fds,
                 envvars, wire>>
  /\ Quiet

(* ------------------------- shutdown ------------------------------------ *)
\* StopDebuggerThreads, called by ArtPlugin_Deinitialize: set shutting_down_
\* and write 1 to the wakeup eventfd (the write fails on -1).
StopDebuggerThreads ==
  /\ ~aborted
  /\ ~shutting_down
  /\ shutting_down' = TRUE
  /\ sleep_event_fd' = IF sleep_event_fd = NoFd THEN NoFd ELSE sleep_event_fd + 1
  /\ UNCHANGED <<adb_write_event_fd, control_sock, adb_connection_socket, flags,
                 next_ddm_id, destroyed, procvars, wpc, sleep_ms, maybe_send_fds, lk_data,
                 producervars, envvars>>
  /\ Quiet

\* delete gState, the next statement of ArtPlugin_Deinitialize: the unique_fd
\* members close their descriptors, and with them what was queued on the
\* sockets is gone; nothing waits for the worker or for a publisher.
DeleteState ==
  /\ ~aborted
  /\ shutting_down
  /\ ~destroyed
  /\ destroyed' = TRUE
  /\ local_agent_control_sock' = NoFd
  /\ UNCHANGED <<aborted, attach_calls, pid, pid_sent, open_dups>>
  /\ sleep_event_fd' = NoFd
  /\ adb_write_event_fd' = NoFd
  /\ control_sock' = NoFd
  /\ adb_connection_socket' = NoFd
  /\ adbd_queue' = <<>> /\ adbd_hup' = FALSE
  /\ agent_queue' = <<>>
  /\ conn_data' = FALSE
  /\ ev' = Ev("delete", "-", "-")
  /\ scenario' = 0
  /\ UNCHANGED <<shutting_down, flags, next_ddm_id, wpc, sleep_ms, maybe_send_fds,
                 lk_data, producervars, next_fd, offered_while_connected>>

\* Threads still inside the object's methods after it was deleted.
WorkerRunning == wpc \notin {"unborn", "nothread", "done", "undefined"}
ProducerRunning(p) == ppc[p] \notin {"idle", "undefined"}

\* The next access of such a thread reads freed memory and closed descriptors:
\* the worker may happen to see shutting_down_ and return, or do anything else.
W_UseAfterFree ==
  /\ destroyed
  /\ WorkerRunning
  /\ wpc' \in {"done", "undefined"}
  /\ ev' = Ev("use-after-free", Worker, "-")
  /\ UNCHANGED <<fields, destroyed, procvars, sleep_ms, maybe_send_fds, lk_data,
                 producervars, envvars, scenario>>

P_UseAfterFree(p) ==
  /\ destroyed
  /\ ProducerRunning(p)
  /\ ppc' = [ppc EXCEPT ![p] = "undefined"]
  /\ UNCHANGED <<fields, destroyed, procvars, wpc, sleep_ms, maybe_send_fds, lk_data, envvars,
                 ddmlocals, wire>>
  /\ Quiet

(* ------------------------- environment --------------------------------- *)
\* The daemon, the agent and the debugger are followed while the poll loop is
\* there to see what they do.
Observed == ~destroyed /\ wpc \notin {"unborn", "nothread", "done", "undefined"}

\* The daemon transfers a debugger descriptor on the control socket.
DaemonSendFd ==
  /\ Observed
  /\ control_sock # NoFd /\ ~adbd_hup
  /\ Len(adbd_queue) < MaxAdbdQueue
  /\ next_fd <= MaxDaemonFds
  /\ adbd_queue' = Append(adbd_queue, next_fd)
  /\ next_fd' = next_fd + 1
  /\ offered_while_connected' =
       IF adb_connection_socket # NoFd
         THEN offered_while_connected \cup {next_fd}
         ELSE offered_while_connected
  /\ UNCHANGED <<fields, destroyed, procvars, wpc, sleep_ms, maybe_send_fds, lk_data,
                 producervars, adbd_hup, agent_queue, conn_data>>
  /\ Quiet

\* The daemon sends a datagram that carries no descriptor.
DaemonSendNoFd ==
  /\ Observed
  /\ control_sock # NoFd /\ ~adbd_hup
  /\ Len(adbd_queue) < MaxAdbdQueue
  /\ adbd_queue' = Append(adbd_queue, 0)
  /\ UNCHANGED <<fields, destroyed, procvars, wpc, sleep_ms, maybe_send_fds, lk_data,
                 producervars, adbd_hup, agent_queue, conn_data, next_fd, offered_while_connected>>
  /\ Quiet

\* The daemon closes its end of the control socket.
DaemonHangup ==
  /\ Observed
  /\ control_sock # NoFd /\ ~adbd_hup
  /\ adbd_hup' = TRUE
  /\ UNCHANGED <<fields, destroyed, procvars, wpc, sleep_ms, maybe_send_fds, lk_data,
                 producervars, adbd_queue, agent_queue, conn_data, next_fd, offered_while_connected>>
  /\ Quiet

\* The loaded agent sends a datagram on its control socket.
AgentSend(m) ==
  /\ Observed
  /\ agent_loaded
  /\ Len(agent_queue) < MaxAgentQueue
  /\ agent_queue' = Append(agent_queue, m)
  /\ UNCHANGED <<fields, destroyed, procvars, wpc, sleep_ms, maybe_send_fds, lk_data,
                 producervars, adbd_queue, adbd_hup, conn_data, next_fd, offered_while_connected>>
  /\ Quiet

\* The debugger sends bytes on the connection.
DebuggerSend ==
  /\ Observed
  /\ adb_connection_socket # NoFd
  /\ ~conn_data
  /\ conn_data' = TRUE
  /\ UNCHANGED <<fields, destroyed, procvars, wpc, sleep_ms, maybe_send_fds, lk_data,
                 producervars, adbd_queue, adbd_hup, agent_queue, next_fd, offered_while_connected>>
  /\ Quiet

(* ------------------------- specification ------------------------------- *)
WorkerStep ==
  \/ W_Outer
  \/ W_Setup
  \/ W_Inner
  \/ W_PollFail
  \/ W_AgentMessage
  \/ W_CloseFdsLock
  \/ W_CloseFdsReset
  \/ W_CloseFdsUnlock
  \/ W_ControlIn
  \/ W_ControlLock
  \/ W_ControlRecv
  \/ W_ControlUnlock
  \/ W_ControlAfter
  \/ W_ControlHup
  \/ W_ConnIn
  \/ W_Wake

\* The chunks the runtime publishes while the broker is followed: 'AAAA' with
\* four bytes of data.
SampleTypes == {Uint32(0, 1094795585)}
SampleSizes == {4}

ProducerStep(p) ==
  \/ \E type \in SampleTypes, size \in SampleSizes : P_Call(p, type, size)
  \/ P_Lock(p)
  \/ P_Check(p)
  \/ P_Write(p)
  \/ P_Unlock(p)

Environment ==
  \/ DaemonSendFd
  \/ DaemonSendNoFd
  \/ DaemonHangup
  \/ \E m \in AgentMessages : AgentSend(m)
  \/ DebuggerSend

Next ==
  \/ StartDebuggerThreads
  \/ WorkerStep
  \/ \E p \in Producers : ProducerStep(p)
  \/ StopDebuggerThreads
  \/ DeleteState
  \/ W_UseAfterFree
  \/ \E p \in Producers : P_UseAfterFree(p)
  \/ Environment

Spec == Init /\ [][Next]_vars


\* The broker without DDM publishers: the poll loop, the lifecycle and the
\* environment.  Publishers change no variable the worker reads except the
\* write lock, which they give back.
BrokerNext ==
  \/ StartDebuggerThreads
  \/ WorkerStep
  \/ StopDebuggerThreads
  \/ DeleteState
  \/ W_UseAfterFree
  \/ Environment

SpecBroker == Init /\ [][BrokerNext]_vars

\* The broker with an agent whose datagrams may also be as long as the room
\* recv is given.
AgentNext ==
  \/ BrokerNext
  \/ AgentSend(kFullMessage)

SpecAgent == Init /\ [][AgentNext]_vars

\* The broker with the scheduling the reconnect relies on: the worker thread is
\* runnable at each of these steps, so it takes them; and connect(), which the
\* loop of SetupAdbConnection repeats until it succeeds, does succeed at some
\* attempt with a trusted daemon that takes the pid.
SetupSucceeds == W_Setup /\ control_sock' # NoFd
FairBroker ==
  /\ SpecBroker
  /\ WF_vars(W_Outer)
  /\ WF_vars(W_Inner)
  /\ WF_vars(W_ControlUnlock)
  /\ WF_vars(SetupSucceeds)


\* The write lock on its own: the broker is started and connected to the
\* daemon with the agent loaded, and the state object lives.  The worker goes
\* through its two locked sections (the control branch, and CloseFds on
\* ds-close) as often as the daemon and the agent make it, reconnecting when the
\* control socket is lost; two publishers publish.
LockInit ==
  /\ sleep_event_fd = kEventfdLocked
  /\ adb_write_event_fd = kEventfdUnlocked
  /\ control_sock = ControlFd
  /\ adb_connection_socket = NoFd
  /\ shutting_down = FALSE
  /\ agent_loaded = TRUE
  /\ agent_listening = FALSE
  /\ agent_has_socket = FALSE
  /\ sent_agent_fds = FALSE
  /\ next_ddm_id = Uint32(0, 1)
  /\ destroyed = FALSE
  /\ local_agent_control_sock = AgentFd
  /\ aborted = FALSE
  /\ attach_calls = 1
  /\ pid \in SamplePids
  /\ pid_sent = PidBytes(pid)
  /\ open_dups = 0
  /\ wpc = "poll"
  /\ sleep_ms = kSleepStartMs
  /\ maybe_send_fds = FALSE
  /\ lk_data = [t \in Threads |-> 0]
  /\ PublishersIdle
  /\ wire = <<>>
  /\ adbd_queue = <<>>
  /\ adbd_hup = FALSE
  /\ agent_queue = <<>>
  /\ conn_data = FALSE
  /\ next_fd = 1
  /\ offered_while_connected = {}
  /\ ev = Ev("plumb", "-", "-")
  /\ scenario = 0

LockNext ==
  \/ W_Outer
  \/ W_Setup
  \/ W_Inner
  \/ W_AgentMessage
  \/ W_CloseFdsLock
  \/ W_CloseFdsReset
  \/ W_CloseFdsUnlock
  \/ W_ControlIn
  \/ W_ControlLock
  \/ W_ControlRecv
  \/ W_ControlUnlock
  \/ W_ControlAfter
  \/ W_ControlHup
  \/ \E p \in Producers : ProducerStep(p)
  \/ DaemonSendFd
  \/ DaemonHangup
  \/ AgentSend(kCloseMessage)

SpecLock == LockInit /\ [][LockNext]_vars

\* A thread blocked in the read of the write-lock eventfd is runnable each time
\* the counter becomes 1, so under fair scheduling it gets the counter at one of
\* those times (strong fairness); a thread inside its critical section is
\* runnable throughout (weak fairness).
FairLock ==
  /\ SpecLock
  /\ SF_vars(W_ControlLock)
  /\ SF_vars(W_CloseFdsLock)
  /\ WF_vars(W_ControlRecv)
  /\ WF_vars(W_ControlUnlock)
  /\ WF_vars(W_CloseFdsReset)
  /\ WF_vars(W_CloseFdsUnlock)
  /\ \A p \in Producers :
       /\ SF_vars(P_Lock(p))
       /\ WF_vars(P_Check(p))
       /\ WF_vars(P_Write(p))
       /\ WF_vars(P_Unlock(p))


\* The PID send on its own: the worker is inside SetupAdbConnection, in a
\* process whose id is small, or next to a power of 16, or the largest Linux
\* hands out.
Pids == (1..MaxPid) \cup {255, 256, 4095, 4096, 4660, 65535, 65536, 65537, 1048576, 4194304}

PidInit ==
  /\ AdbConnectionState_ctor
  /\ destroyed = FALSE
  /\ local_agent_control_sock = NoFd
  /\ aborted = FALSE
  /\ attach_calls = 0
  /\ pid \in Pids
  /\ pid_sent = <<>>
  /\ open_dups = 0
  /\ wpc = "setup"
  /\ sleep_ms = kSleepStartMs
  /\ maybe_send_fds = FALSE
  /\ lk_data = [t \in Threads |-> 0]
  /\ PublishersIdle
  /\ wire = <<>>
  /\ adbd_queue = <<>>
  /\ adbd_hup = FALSE
  /\ agent_queue = <<>>
  /\ conn_data = FALSE
  /\ next_fd = 1
  /\ offered_while_connected = {}
  /\ ev = Ev("plumb", "-", "-")
  /\ scenario = 0

PidNext == W_Setup

SpecPid == PidInit /\ [][PidNext]_vars


\* PublishDdmData on its own: the broker is started and connected to the
\* daemon, its worker waits in poll, a debugger connection is held or not, and
\* any number of chunks have been published before.  The callers publish chunks
\* of several types and sizes.
DdmCounters ==
  {Uint32(0, 0), Uint32(0, 1), Uint32(0, 2), Uint32(0, kLow31Max), Uint32(1, 0),
   Uint32(1, kLow31Max - 1), Uint32(1, kLow31Max)}
DdmTypes == {Uint32(0, 0), Uint32(0, 1094795585), Uint32(1, kLow31Max)}
DdmSizes == (0..MaxDataSize) \cup {65536 * k + 255 : k \in 1..MaxDataSize}

InitDdm ==
  /\ sleep_event_fd = kEventfdLocked
  /\ adb_write_event_fd = kEventfdUnlocked
  /\ control_sock = ControlFd
  /\ adb_connection_socket \in {NoFd, 1}
  /\ shutting_down = FALSE
  /\ agent_loaded = FALSE
  /\ agent_listening = FALSE
  /\ agent_has_socket = FALSE
  /\ sent_agent_fds = FALSE
  /\ next_ddm_id \in DdmCounters
  /\ destroyed = FALSE
  /\ local_agent_control_sock = AgentFd
  /\ aborted = FALSE
  /\ attach_calls = 0
  /\ pid \in SamplePids
  /\ pid_sent = PidBytes(pid)
  /\ open_dups = 0
  /\ wpc = "poll"
  /\ sleep_ms = kSleepStartMs
  /\ maybe_send_fds = FALSE
  /\ lk_data = [t \in Threads |-> 0]
  /\ PublishersIdle
  /\ wire = <<>>
  /\ adbd_queue = <<>>
  /\ adbd_hup = FALSE
  /\ agent_queue = <<>>
  /\ conn_data = FALSE
  /\ next_fd = IF adb_connection_socket = NoFd THEN 1 ELSE 2
  /\ offered_while_connected = {}
  /\ ev = Ev("plumb", "-", "-")
  /\ scenario = 0

DdmNext ==
  \E p \in Producers :
    \/ \E type \in DdmTypes, size \in DdmSizes : P_Call(p, type, size)
    \/ P_Lock(p)
    \/ P_Check(p)
    \/ P_Write(p)
    \/ P_Unlock(p)

SpecDdm == InitDdm /\ [][DdmNext]_vars


(* ------------------------- write interlock ----------------------------- *)
\* The threads whose ScopedEventFdLock object is alive: the worker inside
\* CloseFds or inside the control branch's block, a publisher between the
\* lock's construction and its return.
Holders ==
  {t \in {Worker} : wpc \in {"close_reset", "close_unlock", "d_recv", "d_unlock",
                             "d_unlock_break"}}
  \cup {p \in Producers : ppc[p] \in {"check", "write", "drop", "unlock"}}

\* C1: while the state object exists, at most one thread is inside a
\* ScopedEventFdLock section on the write-lock eventfd, the eventfd's counter is
\* 0 exactly while there is a holder, and 1 whenever the eventfd exists and
\* nobody holds it.
C1_WriteLockExclusive ==
  ~destroyed =>
    /\ Cardinality(Holders) <= 1
    /\ Holders # {} => adb_write_event_fd = kEventfdLocked
    /\ Holders = {} => adb_write_event_fd \in {NoFd, kEventfdUnlocked}
    /\ adb_write_event_fd = NoFd => wpc = "unborn"

\* One publisher writes while the other publisher and the worker (in CloseFds)
\* wait for the lock.
C1_Witness ==
  /\ ~destroyed
  /\ ppc["p1"] = "write"
  /\ ppc["p2"] = "lock"
  /\ wpc = "close_lock"

\* A step taken by thread t.
StepOf(t) == IF t = Worker THEN wpc' # wpc ELSE ppc'[t] # ppc[t]

\* C2: a publisher about to execute writev holds the write lock and sees a
\* connection, and from its check of adb_connection_socket_ to the end of its
\* critical section no other thread closes or replaces adb_connection_socket_.
C2_ConnectionStableForPublisher ==
  [][\A p \in Producers :
       /\ ppc[p] = "write" =>
            (p \in Holders /\ adb_connection_socket # NoFd
             /\ adb_write_event_fd = kEventfdLocked)
       /\ ppc[p] \in {"write", "unlock"} =>
            adb_connection_socket' = adb_connection_socket]_vars

\* C3: every step that takes adb_connection_socket_ from present to absent is
\* a step of a thread that holds the write lock.
C3_TeardownUnderLock ==
  [][(adb_connection_socket # NoFd /\ adb_connection_socket' = NoFd) =>
       \E t \in Holders : StepOf(t)]_vars


(* ------------------------- agent handoff ------------------------------- *)
\* C4: once the agent is loaded and sends control messages, in whatever order,
\* sent_agent_fds_ is true only while adb_connection_socket_ is present, and
\* sent_agent_fds_ is false when the worker has handled ds-accept or ds-close.
C4_SentImpliesConnection ==
  (~destroyed /\ agent_loaded) =>
    /\ sent_agent_fds => adb_connection_socket # NoFd
    /\ (ev.op = "agent-msg" /\ ev.site \in {kAcceptMessage, kCloseMessage}) =>
         ~sent_agent_fds

\* C5: when SendAgentFds has just been called, from any of its three call
\* sites, the agent is loaded and listening and adb_connection_socket_ is present.
C5_SendPreconditions ==
  ev.op = "SendAgentFds" =>
    /\ ev.site \in {"listen-start", "adopt", "conn-data"}
    /\ agent_loaded
    /\ agent_listening
    /\ adb_connection_socket # NoFd

\* The descriptors were sent again because the debugger wrote on the connection
\* after a first send had failed.
C5_Witness ==
  /\ ev = Ev("SendAgentFds", "conn-data", "ok")
  /\ sent_agent_fds

\* C6: a debugger descriptor the daemon sends while a connection is held is
\* received and closed, so it never becomes adb_connection_socket_.
C6_SecondDebuggerDropped ==
  \A fd \in offered_while_connected : adb_connection_socket # fd

\* C7: after the round trip "descriptor adopted with the agent loaded and
\* listening, descriptors sent, ds-accept, ds-close" the broker has no
\* connection, the agent is loaded and listening, agent_has_socket_ and
\* sent_agent_fds_ are false, and the control socket is in the poll set again.
C7_RoundTrip ==
  scenario = 4 =>
    /\ adb_connection_socket = NoFd
    /\ agent_loaded
    /\ agent_listening
    /\ ~agent_has_socket
    /\ ~sent_agent_fds
    /\ control_sock # NoFd
    /\ ControlWatched

\* The round trip has just been completed.
C7_Witness ==
  /\ scenario = 4
  /\ ev = Ev("agent-msg", kCloseMessage, "-")
  /\ wpc = "inner"

(* ------------------------- termination --------------------------------- *)
\* The worker is on the shutdown path: it has seen, or is about to see,
\* shutting_down_ in a loop condition.
LoopCheck == {"inner", "outer", "setup"}

\* C8: once shutting_down_ is set, the worker starts no second dispatch branch
\* and no further connect attempt (from a loop condition it only goes on to
\* return), it never runs in an undefined state, and when it has returned it
\* holds no write lock.
C8_StopTerminatesWorker ==
  [][shutting_down' =>
       /\ wpc' # "undefined"
       /\ (shutting_down /\ wpc \in LoopCheck) => wpc' \in {wpc, "outer", "done"}
       /\ wpc' = "done" => (lk_data'[Worker] = 0 /\ Worker \notin Holders')]_vars

\* C8 on a live object: the same, for the steps taken before delete gState.
C8_StopTerminatesLiveWorker ==
  [][(shutting_down' /\ ~destroyed) =>
       /\ wpc' # "undefined"
       /\ (shutting_down /\ wpc \in LoopCheck) => wpc' \in {wpc, "outer", "done"}
       /\ wpc' = "done" => (lk_data'[Worker] = 0 /\ Worker \notin Holders')]_vars

\* C9 as claimed: the worker has left RunPollLoop only if shutting_down_ is set.
C9_ExitOnlyOnShutdown ==
  wpc = "done" => shutting_down

\* C9 as the code has it: the worker has left RunPollLoop only if
\* shutting_down_ is set, or SetupAdbConnection returned false (socket() failed,
\* the peer is not trusted, the pid was not sent in full), or poll failed, or
\* attaching the agent left an exception pending.
C9_ExitCauses ==
  wpc = "done" =>
    \/ shutting_down
    \/ /\ ev.op = "exit"
       /\ \/ ev.site = "setup" /\ ev.res \in {"socket", "untrusted", "short"}
          \/ ev.site = "poll"
          \/ ev.site = "load-agent"

\* The worker has returned, without shutdown, because the agent failed to load.
C9_Witness ==
  /\ wpc = "done"
  /\ ~shutting_down
  /\ ev.op = "exit" /\ ev.site = "load-agent"

(* ------------------------- reconnect ----------------------------------- *)
\* The worker has just dropped the control socket: the daemon hung up, or the
\* receive on it failed.
ControlLost == ~shutting_down /\ ev.op \in {"rdhup", "recv-fail"}

\* The worker holds a control socket and is in poll again.
Resumed == control_sock # NoFd /\ wpc = "poll"

\* SetupAdbConnection gave up: socket() failed, the peer was not trusted or the
\* pid was not sent in full.
SetupGaveUp == wpc = "done" /\ ev.op = "exit" /\ ev.site = "setup"

\* C10: after the control socket is lost while shutting_down_ is false, given
\* that the daemon accepts a connection from a trusted peer and takes the pid at
\* some attempt, the worker holds a control socket again and polls, unless
\* shutdown begins or SetupAdbConnection gives up first; and no step taken
\* while there is no control socket changes agent_loaded_ or agent_listening_.
C10_ReconnectsAfterLoss ==
  /\ ControlLost ~> (Resumed \/ shutting_down \/ SetupGaveUp)
  /\ [][control_sock = NoFd =>
          (agent_loaded' = agent_loaded /\ agent_listening' = agent_listening)]_vars

\* SetupAdbConnection has just succeeded for a broker whose agent was loaded
\* and listening before the control socket was lost.
C10_Witness ==
  /\ ev.op = "connected"
  /\ agent_loaded /\ agent_listening
  /\ control_sock # NoFd
  /\ wpc = "inner"

(* ------------------------- DDM packets --------------------------------- *)
\* What the debugger reads from four bytes in network order.
FromBigEndian(b) ==
  Uint32(b[1] \div 128, (b[1] % 128) * 16777216 + b[2] * 65536 + b[3] * 256 + b[4])

\* The fields of a packet handed to writev.
LengthField(w) == FromBigEndian(SubSeq(w.header, 1, 4))
PacketId(w) == FromBigEndian(SubSeq(w.header, 5, 8))

\* C11 as claimed: the length field of every packet handed to writev is
\* 23 + data.size() and is the number of bytes handed to writev.
C11_LengthIs23PlusPayload ==
  \A i \in 1..Len(wire) :
    /\ LengthField(wire[i]) = Uint32(0, 23 + wire[i].size)
    /\ LengthField(wire[i]) = Uint32(0, wire[i].len)

\* C11 as the code has it: the header is 19 bytes, the length field of every
\* packet handed to writev is 19 + data.size() and is the number of bytes
\* handed to writev.
C11_LengthIs19PlusPayload ==
  \A i \in 1..Len(wire) :
    /\ Len(wire[i].header) = 19
    /\ LengthField(wire[i]) = Uint32(0, 19 + wire[i].size)
    /\ LengthField(wire[i]) = Uint32(0, wire[i].len)

\* A chunk with four bytes of data went out as 23 bytes with length 0x17, and
\* one with 65536 + 255 bytes with length 0x00010112.
C11_Witness ==
  /\ Len(wire) = 2
  /\ wire[1].size = 4 /\ wire[1].len = 23
  /\ SubSeq(wire[1].header, 1, 4) = <<0, 0, 0, 23>>
  /\ wire[2].size = 65791 /\ wire[2].len = 65810
  /\ SubSeq(wire[2].header, 1, 4) = <<0, 1, 1, 18>>

\* C12: the id of every packet handed to writev has bit 31 set, whatever the
\* counter was, also above 2^31 - 1 and across its wrap to 0.
C12_IdHasBit31 ==
  \A i \in 1..Len(wire) :
    /\ wire[i].header[5] >= 128
    /\ PacketId(wire[i]).hi = 1

\* The ids 0xFFFFFFFF and, after the counter wrapped to 0, 0x80000000 went out.
C12_Witness ==
  /\ Len(wire) = 2
  /\ SubSeq(wire[1].header, 5, 8) = <<255, 255, 255, 255>>
  /\ SubSeq(wire[2].header, 5, 8) = <<128, 0, 0, 0>>
  /\ next_ddm_id = Uint32(0, 1)

\* The id that follows id among the ids with bit 31 set.
IdAfter(id) == Uint32(1, IF id.lo = kLow31Max THEN 0 ELSE id.lo + 1)

\* The publishers whose id is taken and whose packet is not yet handed to writev.
IdPending == Cardinality({q \in Producers : ppc[q] = "write"})

\* C13: the packets handed to writev carry consecutive ids in the order they
\* were handed over (0x80000001, 0x80000002, ... when the counter started at 1),
\* no two of them the same id; the counter is one past the last id taken; an id
\* is taken only by a publisher that holds the write lock and goes on to
\* write; and a publish dropped for lack of a connection leaves the counter
\* as it was.
C13_IdsInLockOrder ==
  /\ [](/\ \A i \in 1..(Len(wire) - 1) : PacketId(wire[i + 1]) = IdAfter(PacketId(wire[i]))
        /\ \A i, j \in 1..Len(wire) : i # j => PacketId(wire[i]) # PacketId(wire[j])
        /\ (Len(wire) > 0 /\ IdPending = 0) =>
             NextDdmId(next_ddm_id) = IdAfter(PacketId(wire[Len(wire)]))
        /\ next_ddm_id = Uint32(0, 1 + IdsTaken) =>
             \A i \in 1..Len(wire) : PacketId(wire[i]) = Uint32(1, i))
  /\ [][next_ddm_id' # next_ddm_id =>
          \E p \in Producers : p \in Holders /\ ppc[p] = "check" /\ ppc'[p] = "write"]_vars
  /\ [][\A p \in Producers :
          (ppc[p] = "check" /\ ppc'[p] = "drop") => next_ddm_id' = next_ddm_id]_vars

\* Two publishers sent 0x80000001 and 0x80000002, in that order.
C13_Witness ==
  /\ Len(wire) = 2
  /\ SubSeq(wire[1].header, 5, 8) = <<128, 0, 0, 1>>
  /\ SubSeq(wire[2].header, 5, 8) = <<128, 0, 0, 2>>
  /\ next_ddm_id = Uint32(0, 3)

\* What a call of PublishDdmData must leave alone: the connection, the control
\* socket and the agent flags.
BrokerSockets == <<adb_connection_socket, control_sock, flags>>

\* C14: a publisher that finds adb_connection_socket_ absent under the lock
\* hands nothing to writev and takes no id, and then returns with the write lock
\* released; neither step changes the connection, the control socket or an
\* agent flag.
C14_DroppedPublish ==
  [][\A p \in Producers :
       /\ (ppc[p] = "check" /\ adb_connection_socket = NoFd /\ ppc'[p] # "check") =>
            /\ ppc'[p] = "drop"
            /\ p \in Holders'
            /\ UNCHANGED <<wire, next_ddm_id, BrokerSockets>>
       /\ (ppc[p] = "drop" /\ ppc'[p] # "drop") =>
            /\ ppc'[p] = "idle"
            /\ adb_write_event_fd' = kEventfdUnlocked
            /\ lk_data'[p] = 0
            /\ UNCHANGED <<wire, next_ddm_id, BrokerSockets>>]_vars

\* One publisher is on the dropped path, holding the lock, while the other
\* waits for it; nothing has been written.
C14_Witness ==
  /\ adb_connection_socket = NoFd
  /\ ppc["p1"] = "drop"
  /\ ppc["p2"] = "lock"
  /\ wire = <<>>
  /\ adb_write_event_fd = kEventfdLocked

\* C15: whatever writev returned, the connection stays as it was; the publisher
\* then returns with the write lock released, the connection present and the
\* control socket and agent flags unchanged; and every later packet is handed to
\* writev on that same connection.
C15_WriteFailureKeepsConnection ==
  [][\A p \in Producers :
       /\ (ppc[p] = "write" /\ ppc'[p] # "write") =>
            /\ ppc'[p] = "unlock"
            /\ wire' = Append(wire, wire'[Len(wire')])
            /\ wire'[Len(wire')].fd = adb_connection_socket
            /\ Len(wire) > 0 => wire'[Len(wire')].fd = wire[Len(wire)].fd
            /\ adb_connection_socket # NoFd
            /\ UNCHANGED BrokerSockets
       /\ (ppc[p] = "unlock" /\ ppc'[p] # "unlock") =>
            /\ ppc'[p] = "idle"
            /\ adb_write_event_fd' = kEventfdUnlocked
            /\ lk_data'[p] = 0
            /\ adb_connection_socket' # NoFd
            /\ UNCHANGED BrokerSockets]_vars

\* The writev of a second packet came back short: its publisher has not yet
\* returned, and the packet went to the connection the first one went to, which
\* is still the broker's connection.
C15_Witness ==
  /\ Len(wire) = 2
  /\ wire[1].fd = wire[2].fd
  /\ adb_connection_socket = wire[2].fd
  /\ ppc["p2"] = "unlock" /\ writev_res["p2"] = "short"
  /\ ppc["p1"] = "idle"

\* The sleeps the spec lists for the retries of one call, the last one repeating.
BackoffSequence == <<500, 750, 1125, 1687, 2000>>

\* The place of a sleep in that list, 0 if it is not in it.
BackoffIndex(ms) ==
  IF \E k \in DOMAIN BackoffSequence : BackoffSequence[k] = ms
    THEN CHOOSE k \in DOMAIN BackoffSequence : BackoffSequence[k] = ms
    ELSE 0

\* The worker is inside SetupAdbConnection, about to try connect.
InSetup == ~destroyed /\ wpc = "setup"

\* C16: every call of SetupAdbConnection starts with a sleep of 500 ms; each
\* failed connect sleeps the current value and moves to the next value of
\* 500, 750, 1125, 1687, 2000, 2000, ..., which is min(2000, d + floor(d/2)),
\* never smaller than d and never above 2000.
C16_BackoffSequence ==
  /\ [](InSetup => BackoffIndex(sleep_ms) # 0)
  /\ [][(~InSetup /\ InSetup') => sleep_ms' = BackoffSequence[1]]_vars
  /\ [][(W_Setup /\ InSetup') =>
          LET d == sleep_ms
              k == BackoffIndex(d)
              sum == d + (d \div 2) IN
          /\ sleep_ms' = BackoffSequence[IF k < Len(BackoffSequence) THEN k + 1 ELSE k]
          /\ sleep_ms' = IF sum < 2000 THEN sum ELSE 2000
          /\ sleep_ms' >= d
          /\ sleep_ms' <= 2000]_vars

\* A later call of SetupAdbConnection (the daemon had already offered a
\* descriptor on an earlier control socket) has backed off to the cap.
C16_Witness ==
  /\ InSetup
  /\ sleep_ms = 2000
  /\ next_fd > 1

\* What ends a call of SetupAdbConnection other than a failed connect or the
\* shutdown flag: the peer is not trusted, the PID send is short, or the
\* control socket is installed.
SetupReturns ==
  {Ev("exit", "setup", "untrusted"), Ev("exit", "setup", "short"),
   Ev("connected", "trusted", "full")}

\* C17: while shutting_down_ is false a turn of the loop in SetupAdbConnection
\* either stays in the loop (the connect failed) or returns for a reason other
\* than a failed connect; with shutting_down_ true the loop check returns
\* failure and control_sock_ is not installed.
C17_ConnectFailureRetries ==
  /\ [][(W_Setup /\ ~shutting_down /\ ~InSetup') => ev' \in SetupReturns]_vars
  /\ [][(W_Setup /\ ~shutting_down /\ InSetup') => UNCHANGED control_sock]_vars
  /\ [][(W_Setup /\ shutting_down) =>
          /\ wpc' = "done"
          /\ ev' = Ev("exit", "setup", "shutting_down")
          /\ control_sock' = NoFd
          /\ UNCHANGED control_sock]_vars

\* The worker was asked to stop while inside SetupAdbConnection and returned
\* from it at the loop check, with no control socket.
C17_Witness ==
  /\ ~destroyed
  /\ wpc = "done"
  /\ shutting_down
  /\ ev = Ev("exit", "setup", "shutting_down")
  /\ control_sock = NoFd

\* The worker's last step was the return of SetupAdbConnection after a PID
\* send that was not sizeof(pid_t) bytes.
ShortPidSend == ev = Ev("exit", "setup", "short")

\* C18 as stated: after a short PID send the worker keeps running and goes back
\* to the outer loop to reconnect.
C18_ShortSendReconnects ==
  /\ [](ShortPidSend => wpc # "done")
  /\ [][(W_Setup /\ ShortPidSend') => wpc' = "outer"]_vars

\* C18, amended: a short PID send ends the worker: the socket is not installed
\* as control_sock_, SetupAdbConnection returns failure, and the worker returns
\* without another attempt to connect.
C18_ShortSendEndsWorker ==
  /\ [](ShortPidSend => (wpc = "done" /\ control_sock = NoFd))
  /\ [][(W_Setup /\ ShortPidSend') =>
          (wpc' = "done" /\ control_sock' = NoFd /\ ~shutting_down)]_vars

\* The worker has returned after a short PID send, with no stop requested and
\* no control socket installed.
C18_Witness ==
  /\ ShortPidSend
  /\ ~destroyed
  /\ wpc = "done"
  /\ ~shutting_down
  /\ control_sock = NoFd

\* The worker's last step was the return of SetupAdbConnection for a peer that
\* is not trusted.
UntrustedPeer == ev = Ev("exit", "setup", "untrusted")

\* C19: an untrusted peer makes SetupAdbConnection return failure at once, with
\* control_sock_ not installed, and the worker returns; control_sock_ is
\* installed only by a turn of the loop whose peer was trusted and whose PID
\* send was sizeof(pid_t) bytes.
C19_UntrustedPeerEndsWorker ==
  /\ [](UntrustedPeer => (wpc = "done" /\ control_sock = NoFd))
  /\ [][(W_Setup /\ UntrustedPeer') => (wpc' = "done" /\ control_sock' = NoFd)]_vars
  /\ [][(control_sock = NoFd /\ control_sock' # NoFd) =>
          (W_Setup /\ ev' = Ev("connected", "trusted", "full"))]_vars

\* The worker has returned because the peer was not trusted, after an earlier
\* control socket had been installed and lost.
C19_Witness ==
  /\ UntrustedPeer
  /\ ~destroyed
  /\ wpc = "done"
  /\ ~shutting_down
  /\ control_sock = NoFd
  /\ next_fd > 1

\* After a call of StartDebuggerThreads: one of the two eventfds or the agent
\* socketpair is missing.
CreationFailed ==
  \/ sleep_event_fd = NoFd
  \/ adb_write_event_fd = NoFd
  \/ local_agent_control_sock = NoFd

\* C20 as stated: when the wakeup eventfd, the write-lock eventfd or the agent
\* socketpair cannot be created, StartDebuggerThreads spawns no worker and the
\* process goes on.
C20_CreationFailureReturns ==
  [][(StartDebuggerThreads /\ CreationFailed') => (wpc' # "outer" /\ ~aborted')]_vars

\* C20, amended: when one of the three cannot be created the process is
\* aborted by the failed check; no worker was spawned, and none is afterwards.
C20_CreationFailureAborts ==
  /\ [][(StartDebuggerThreads /\ CreationFailed') => (wpc' = "unborn" /\ aborted')]_vars
  /\ [](aborted => (wpc = "unborn" /\ CreationFailed /\ ~destroyed))
  /\ [][aborted => UNCHANGED vars]_vars

\* The process has aborted on the socketpair, both eventfds having been
\* created before it.
C20_Witness ==
  /\ aborted
  /\ sleep_event_fd = kEventfdLocked
  /\ adb_write_event_fd = kEventfdUnlocked
  /\ local_agent_control_sock = NoFd
  /\ wpc = "unborn"

\* The worker's last step was the failed attach of the agent.
AttachFailed == ev = Ev("exit", "load-agent", "-")

\* The worker is inside RunPollLoop, at a poll or handling what it reported.
InPollLoop == wpc \notin {"unborn", "nothread", "done", "undefined"}

\* C21: a failed attach of the agent leaves agent_loaded_ false and ends the
\* worker; from then on the worker takes no step, so no poll is made and no
\* attach is tried again, and StartDebuggerThreads cannot spawn another worker.
C21_AttachFailureEndsWorker ==
  /\ [][(W_ConnIn /\ AttachFailed') => (wpc' = "done" /\ ~agent_loaded')]_vars
  /\ [](AttachFailed => (wpc = "done" /\ ~agent_loaded /\ ~InPollLoop))
  /\ [][(AttachFailed \/ wpc = "done") =>
          (~ENABLED StartDebuggerThreads /\ UNCHANGED <<wpc, agent_loaded>>)]_vars

\* The worker has ended on a failed attach, with the debugger's connection
\* still held and unread data on it.
C21_Witness ==
  /\ AttachFailed
  /\ wpc = "done"
  /\ ~agent_loaded
  /\ adb_connection_socket # NoFd
  /\ conn_data
  /\ ~shutting_down

\* C22: agent_loaded_ is never set back to false, and Runtime::AttachAgent is
\* called at most once, whatever connections, ds-close teardowns and daemon
\* reconnects the broker goes through.
C22_AgentLoadedOnce ==
  /\ [][agent_loaded => agent_loaded']_vars
  /\ [](attach_calls <= 1)
  /\ [](agent_loaded => attach_calls = 1)
  /\ [][attach_calls' # attach_calls => (W_ConnIn /\ ~agent_loaded)]_vars

\* The agent was loaded on the first debugger connection, which ds-close then
\* tore down; a second connection has been adopted and nothing has arrived on
\* it yet: still one attach.
C22_Witness ==
  /\ agent_loaded
  /\ attach_calls = 1
  /\ adb_connection_socket = 2
  /\ wpc = "poll"
  /\ ~conn_data

\* The threads blocked in, or about to enter, the read of the write-lock
\* eventfd in a ScopedEventFdLock constructor.
Waiters ==
  {t \in {Worker} : wpc \in {"close_lock", "d_lock"}}
  \cup {p \in Producers : ppc[p] = "lock"}

\* Where a thread is once it has left a section it entered with the lock.
OutsideSection(t) ==
  IF t = Worker THEN wpc \in {"inner", "outer", "d_after", "done"}
  ELSE ppc[t] = "idle"

C24_DestroyAfterWorkerExit ==
  /\ [][(~destroyed /\ destroyed') =>
          (~WorkerRunning /\ \A p \in Producers : ~ProducerRunning(p))]_vars
  /\ [][~(W_UseAfterFree \/ \E p \in Producers : P_UseAfterFree(p))]_vars

\* The worker, still inside RunPollLoop when the state was deleted, has touched
\* the freed object.
C24_Witness ==
  /\ destroyed
  /\ ev = Ev("use-after-free", Worker, "-")
  /\ wpc = "undefined"

\* The value of a hexadecimal digit, and of a string of them.
DigitValue(c) == CHOOSE d \in 0..15 : HexDigits[d + 1] = c
RECURSIVE HexValue(_)
HexValue(str) ==
  IF str = <<>> THEN 0
  ELSE 16 * HexValue(SubSeq(str, 1, Len(str) - 1)) + DigitValue(str[Len(str)])

\* The bytes are lowercase hexadecimal digits.
IsLowerHex(str) == \A i \in DOMAIN str : \E d \in 0..15 : HexDigits[d + 1] = str[i]

\* C25: the bytes handed to send for the PID are sizeof(pid_t) lowercase
\* hexadecimal characters that read back as the PID of the process.
C25_PidRoundTrip ==
  pid_sent # <<>> =>
    /\ Len(pid_sent) = sizeof_pid_t
    /\ IsLowerHex(pid_sent)
    /\ HexValue(pid_sent) = pid

\* The same for the PIDs that four hexadecimal digits can hold.
C25_PidRoundTripUpToFFFF ==
  (pid_sent # <<>> /\ pid <= 65535) =>
    /\ Len(pid_sent) = sizeof_pid_t
    /\ IsLowerHex(pid_sent)
    /\ HexValue(pid_sent) = pid

\* Process 65536 (0x10000) has sent "1000", which reads back as 4096.
C25_Witness ==
  /\ pid = 65536
  /\ pid_sent = <<"1", "0", "0", "0">>
  /\ HexValue(pid_sent) = 4096
  /\ control_sock = ControlFd

\* The descriptors and flags of the connection and of the agent.  The two ends
\* of the agent socketpair are created and closed together.
ConnectionAndAgent == <<BrokerSockets, local_agent_control_sock>>

\* C26: no step of a publisher changes the connection, the control socket, the
\* agent sockets or an agent flag, on any path through PublishDdmData; once the
\* broker is started and until it is deleted, every change of them is a step of
\* the worker.
C26_PublishersChangeNothing ==
  /\ [][(\E p \in Producers : ProducerStep(p)) => UNCHANGED ConnectionAndAgent]_vars
  /\ [][(\E p \in Producers : StepOf(p)) => UNCHANGED ConnectionAndAgent]_vars
  /\ [][ConnectionAndAgent' # ConnectionAndAgent =>
          (WorkerStep \/ StartDebuggerThreads \/ DeleteState)]_vars

\* A publisher's writev has failed on a connection the worker had adopted and
\* for which it had loaded the agent: all of that is still in place.
C26_Witness ==
  /\ ppc["p1"] = "unlock"
  /\ writev_res["p1"] = "fail"
  /\ adb_connection_socket # NoFd
  /\ agent_loaded
  /\ control_sock = ControlFd
  /\ ~destroyed

\* The worker leaves poll, with the state alive, into a dispatch branch.
PollDispatch ==
  /\ ~destroyed
  /\ wpc = "poll"
  /\ wpc' \notin {"poll", "undefined"}
  /\ ev' # Ev("exit", "poll", "-")

\* The branch the worker is in or has just run, read off the state after the
\* step: the agent's message, the control socket's input, the control socket's
\* hangup, the connection's data, or nothing.
BranchTaken ==
  IF wpc = "d_lock" THEN "D-POLLIN"
  ELSE IF ev = Ev("rdhup", "-", "-") THEN "D-POLLRDHUP"
  ELSE IF ev = Ev("wake", "-", "-") THEN "none"
  ELSE IF \/ ev.op \in {"load-agent", "conn-data"}
          \/ ev = Ev("exit", "load-agent", "-")
          \/ (ev.op = "SendAgentFds" /\ ev.site = "conn-data")
    THEN "C-POLLIN"
  ELSE IF \/ wpc = "close_lock"
          \/ ev.op \in {"agent-msg", "agent-recv-fail"}
          \/ (ev.op = "SendAgentFds" /\ ev.site = "listen-start")
    THEN "A-POLLIN"
  ELSE "?"

\* The branches the fixed order allows for what is ready.  A control socket
\* whose peer has hung up reports POLLRDHUP, and may report POLLIN as well.
BranchesInOrder ==
  IF AgentReady THEN {"A-POLLIN"}
  ELSE IF ControlIn THEN {"D-POLLIN"}
  ELSE IF ControlHup THEN {"D-POLLIN", "D-POLLRDHUP"}
  ELSE IF ConnIn THEN {"C-POLLIN"}
  ELSE {"none"}

\* C27: a wake of poll runs one branch, the first in the order agent, control
\* input, control hangup, connection data whose slot is ready; a control socket
\* with both a datagram and a hangup pending goes to the receive and is not
\* closed by that step; the agent's message goes before a pending datagram of
\* the daemon, which stays queued.
C27_DispatchOrder ==
  /\ [][PollDispatch => BranchTaken' \in BranchesInOrder]_vars
  /\ [][(PollDispatch /\ ~AgentReady /\ ControlIn /\ ControlHup) =>
          (wpc' = "d_lock" /\ UNCHANGED <<control_sock, adbd_queue, adbd_hup>>)]_vars
  /\ [][(PollDispatch /\ AgentReady) =>
          UNCHANGED <<control_sock, adbd_queue, adbd_hup, adb_connection_socket>>]_vars
  /\ [][(PollDispatch /\ BranchTaken' # "A-POLLIN") => UNCHANGED agent_queue]_vars

\* The worker has gone to the receive with both a datagram and the daemon's
\* hangup pending on the control socket, which is still open.
C27_Witness ==
  /\ wpc = "d_lock"
  /\ adbd_queue # <<>>
  /\ adbd_hup
  /\ control_sock = ControlFd
  /\ ~destroyed

\* The two branches of the control socket's slot.
ControlBranches == {"D-POLLIN", "D-POLLRDHUP"}

\* C28: the worker enters a branch of the control socket only from a poll made
\* with no connection held, and with no connection held (and no agent message
\* pending) whatever is pending on the control socket is dispatched; so the
\* receive from the daemon and the close on hangup run with no connection; and
\* while a connection is held the control socket stays as it is and the
\* connection changes only by being torn down.
C28_ControlWatchedIffNoConnection ==
  /\ [][(PollDispatch /\ BranchTaken' \in ControlBranches) =>
          adb_connection_socket = NoFd]_vars
  /\ [][(PollDispatch /\ adb_connection_socket = NoFd /\ ~AgentReady
           /\ control_sock # NoFd /\ (adbd_queue # <<>> \/ adbd_hup)) =>
          BranchTaken' \in ControlBranches]_vars
  /\ []((~destroyed /\ wpc \in {"d_lock", "d_recv"}) => adb_connection_socket = NoFd)
  /\ [][(~destroyed' /\ control_sock' # control_sock) => adb_connection_socket = NoFd]_vars
  /\ [][(~destroyed' /\ adb_connection_socket # NoFd) =>
          (UNCHANGED control_sock /\ adb_connection_socket' \in {adb_connection_socket, NoFd})]_vars

\* The daemon has hung up while the agent owns the connection; the worker has
\* since handled the agent's ds-accept, and both sockets are as they were.
C28_Witness ==
  /\ adbd_hup
  /\ adb_connection_socket # NoFd
  /\ agent_has_socket
  /\ control_sock = ControlFd
  /\ ev = Ev("agent-msg", kAcceptMessage, "-")
  /\ wpc = "inner"
  /\ ~destroyed

\* C29: the hangup branch of the control socket runs only with
\* agent_has_socket_ false, as its DCHECK says.
C29_HangupWithoutAgentSocket ==
  [][W_ControlHup => ~agent_has_socket]_vars

\* The hangup branch has just run with agent_has_socket_ true.
C29_Witness ==
  /\ ev = Ev("rdhup", "-", "-")
  /\ agent_has_socket
  /\ control_sock = NoFd
  /\ ~destroyed

\* What the two loss branches must leave alone.
KeptOnControlLoss ==
  <<adb_connection_socket, flags, local_agent_control_sock, sleep_event_fd,
    shutting_down, next_ddm_id>>

\* C30: a failed receive closes control_sock_ and goes to the end of the locked
\* block, which writes the token back and leaves the inner loop; the hangup
\* branch closes control_sock_ and leaves the inner loop without touching the
\* lock; neither changes the connection or an agent flag.
C30_ControlLossFrame ==
  /\ [][(W_ControlRecv /\ ev'.op = "recv-fail") =>
          /\ control_sock' = NoFd
          /\ wpc' = "d_unlock_break"
          /\ UNCHANGED <<KeptOnControlLoss, adb_write_event_fd, lk_data>>]_vars
  /\ [][(W_ControlUnlock /\ wpc = "d_unlock_break") =>
          /\ wpc' = "outer"
          /\ control_sock' = NoFd
          /\ adb_write_event_fd' = kEventfdUnlocked
          /\ lk_data'[Worker] = 0
          /\ Worker \notin Holders'
          /\ UNCHANGED KeptOnControlLoss]_vars
  /\ [][W_ControlHup =>
          /\ control_sock' = NoFd
          /\ wpc' = "outer"
          /\ Worker \notin Holders'
          /\ UNCHANGED <<KeptOnControlLoss, adb_write_event_fd, lk_data>>]_vars

\* The worker is back at the outer loop after a failed receive: the control
\* socket is closed, the lock is free.
C30_Witness ==
  /\ wpc = "outer"
  /\ ev = Ev("plumb", "-", "-")
  /\ control_sock = NoFd
  /\ adb_write_event_fd = kEventfdUnlocked
  /\ ~shutting_down
  /\ ~destroyed
  /\ next_fd > 1

\* adb_connection_socket_ is set, the agent is loaded and it is listening.
HandoffDue == adb_connection_socket # NoFd /\ agent_loaded /\ agent_listening

\* The last step called SendAgentFds from this call site.
SentFrom(site) == ev.op = "SendAgentFds" /\ ev.site = site

\* C31: HandoffDue becomes true only by an adoption or by ds-listen-start.  On
\* ds-listen-start the same step calls SendAgentFds.  On an adoption the
\* worker, still inside the lock, notes maybe_send_fds; the lock is released
\* with nothing else changed, and the step after it calls SendAgentFds with the
\* lock not held by the worker, which ends the iteration.  A call whose sendmsg
\* succeeded leaves sent_agent_fds_ true.
C31_HandoffWithinIteration ==
  /\ [][(~HandoffDue /\ HandoffDue') =>
          \/ /\ ev'.op = "adopt"
             /\ wpc' = "d_unlock"
             /\ maybe_send_fds'
             /\ Worker \in Holders'
          \/ /\ SentFrom("listen-start")'
             /\ wpc' = "inner"
             /\ (ev'.res = "ok" => sent_agent_fds')]_vars
  /\ [][(W_ControlUnlock /\ wpc = "d_unlock") =>
          /\ wpc' = "d_after"
          /\ UNCHANGED <<adb_connection_socket, flags, maybe_send_fds>>
          /\ Worker \notin Holders']_vars
  /\ [][(W_ControlAfter /\ maybe_send_fds /\ HandoffDue) =>
          /\ SentFrom("adopt")'
          /\ wpc' = "inner"
          /\ Worker \notin Holders
          /\ lk_data[Worker] = 0
          /\ (ev'.res = "ok" => sent_agent_fds')]_vars
  /\ [][SentFrom("adopt")' /\ ev' # ev => W_ControlAfter]_vars

\* The agent said ds-listen-start while a connection was in hand, and the
\* descriptors went out in that step.
C31_Witness ==
  /\ SentFrom("listen-start")
  /\ ev.res = "ok"
  /\ HandoffDue
  /\ sent_agent_fds
  /\ wpc = "inner"
  /\ ~destroyed

\* The last step handled this datagram of the agent.
Handled(m) == ev.op = "agent-msg" /\ ev.site = m

\* The frame of the agent branch for the datagrams it does not hand on to
\* SendAgentFds or CloseFds.
AgentFrame ==
  /\ (ev'.op = "agent-recv-fail" =>
        UNCHANGED <<fields, local_agent_control_sock>> /\ wpc' = "inner")
  /\ (Handled(kListenEndMessage)' =>
        /\ ~agent_listening'
        /\ UNCHANGED <<adb_connection_socket, control_sock, agent_loaded,
                       agent_has_socket, sent_agent_fds>>)
  /\ (Handled(kAcceptMessage)' =>
        /\ agent_has_socket' /\ ~sent_agent_fds'
        /\ UNCHANGED <<adb_connection_socket, control_sock, agent_loaded,
                       agent_listening>>)
  /\ (Handled(kOtherMessage)' \/ Handled(kFullMessage)' =>
        UNCHANGED <<fields, local_agent_control_sock>> /\ wpc' = "inner")
  /\ UNCHANGED <<control_sock, agent_loaded>>

\* C32: a step of the agent branch changes only what the row of its datagram
\* names: ds-listen-end clears agent_listening_ only, ds-accept sets
\* agent_has_socket_ and clears sent_agent_fds_ only, an unrecognised datagram
\* or a failed recv changes nothing, and none changes control_sock_ or
\* agent_loaded_.
C32_AgentMessageFrame ==
  [][W_AgentMessage => AgentFrame]_vars

\* The same for an agent whose datagrams are shorter than the room recv is
\* given.
C32_FrameForShorterDatagrams ==
  [][(W_AgentMessage /\ Head(agent_queue) # kFullMessage) => AgentFrame]_vars

\* A datagram of sizeof(buf) - 1 bytes was received and the terminator's write
\* went wrong.
C32_Witness ==
  /\ ev = Ev("agent-msg", kFullMessage, "overrun")
  /\ wpc = "undefined"
  /\ ~destroyed

\* A step of the poll loop in which SendAgentFds was called.
SendCall ==
  /\ W_AgentMessage \/ W_ControlAfter \/ W_ConnIn
  /\ ev'.op = "SendAgentFds"

\* C33: a call of SendAgentFds leaves adb_connection_socket_ and
\* adb_write_event_fd_ open and as they were, has closed its duplicates when
\* it returns, sets sent_agent_fds_ when sendmsg succeeded and leaves it alone
\* when sendmsg failed, and changes no other flag; after a failed call the
\* conditions of the resend on connection data hold, and connection data then
\* makes the call again.
C33_SendAgentFdsFrame ==
  /\ [](open_dups = 0)
  /\ [][SendCall =>
          /\ adb_connection_socket # NoFd
          /\ adb_write_event_fd # NoFd
          /\ UNCHANGED <<adb_connection_socket, adb_write_event_fd, control_sock,
                         local_agent_control_sock, agent_loaded, agent_has_socket>>
          /\ (ev'.site # "listen-start" => UNCHANGED agent_listening)
          /\ (ev'.res = "ok" => sent_agent_fds')
          /\ (ev'.res = "fail" => UNCHANGED sent_agent_fds)
          /\ (ev'.res = "fail" /\ ~sent_agent_fds =>
                agent_loaded' /\ agent_listening' /\ ~sent_agent_fds')]_vars
  /\ [][(W_ConnIn /\ agent_loaded /\ agent_listening /\ ~sent_agent_fds) =>
          SentFrom("conn-data")']_vars

\* Data from the debugger made the worker send the descriptors from the resend
\* branch, and sendmsg succeeded.
C33_Witness ==
  /\ SentFrom("conn-data")
  /\ ev.res = "ok"
  /\ sent_agent_fds
  /\ adb_connection_socket # NoFd
  /\ adb_write_event_fd = kEventfdUnlocked
  /\ open_dups = 0
  /\ ~destroyed

\* C34: AttachAgent is called, and agent_loaded_ set, only by the branch of the
\* connection slot, with a connection held, bytes of the debugger readable on
\* it and agent_loaded_ false; a connection comes to be held only by an
\* adoption, and the steps of the control branch neither call AttachAgent nor
\* set agent_loaded_; so a loaded agent means the daemon has transferred a
\* descriptor and AttachAgent was called.
C34_AttachOnlyOnConnectionData ==
  /\ [][(agent_loaded' # agent_loaded \/ attach_calls' # attach_calls) =>
          /\ W_ConnIn
          /\ adb_connection_socket # NoFd
          /\ conn_data
          /\ ~agent_loaded]_vars
  /\ [][(adb_connection_socket = NoFd /\ adb_connection_socket' # NoFd) =>
          W_ControlRecv /\ ev'.op = "adopt"]_vars
  /\ [][(W_ControlIn \/ W_ControlLock \/ W_ControlRecv \/ W_ControlUnlock
           \/ W_ControlAfter) =>
          UNCHANGED <<agent_loaded, attach_calls>>]_vars
  /\ [](agent_loaded => next_fd > 1 /\ attach_calls >= 1)

\* The agent has just been loaded on the first bytes of the debugger.
C34_Witness ==
  /\ ev = Ev("load-agent", "-", "ok")
  /\ agent_loaded
  /\ attach_calls = 1
  /\ adb_connection_socket # NoFd
  /\ ~destroyed

\* C35: whenever SendAgentFds is called, sent_agent_fds_ is false, as the
\* DCHECK at its head says.
C35_SendOnlyWhenNotSent ==
  [][SendCall => ~sent_agent_fds]_vars

\* The same for the call after an adoption alone.
C35_AdoptSendOnlyWhenNotSent ==
  [][(W_ControlAfter /\ ev'.op = "SendAgentFds") => ~sent_agent_fds]_vars

\* SendAgentFds was called with sent_agent_fds_ true: its sendmsg failed, which
\* assigns nothing, and the flag is true.
C35_Witness ==
  /\ ev.op = "SendAgentFds"
  /\ ev.res = "fail"
  /\ sent_agent_fds
  /\ ~destroyed

\* C36: SendAgentFds is never called while agent_has_socket_ is true, and
\* never twice on a row for one connection: a call that succeeded is followed
\* by no other call before that connection's ds-accept or ds-close.
C36_NoSendWhileAgentHasSocket ==
  /\ [][SendCall => ~agent_has_socket]_vars
  /\ [][SendCall => ~(ev.op = "SendAgentFds" /\ ev.res = "ok")]_vars

\* The first half alone.
C36_NoSendWithSocket ==
  [][SendCall => ~agent_has_socket]_vars

\* The descriptors went out while the agent had the socket.
C36_Witness ==
  /\ ev.op = "SendAgentFds"
  /\ agent_has_socket
  /\ adb_connection_socket # NoFd
  /\ ~destroyed

\* C37: while the state object exists, agent_listening_ implies agent_loaded_
\* and agent_has_socket_ implies agent_loaded_; the agent branch runs only with
\* agent_loaded_ true, and the agent is loaded only with agent_listening_ false.
C37_FlagsImplyLoaded ==
  /\ [](~destroyed => (agent_listening => agent_loaded))
  /\ [](~destroyed => (agent_has_socket => agent_loaded))
  /\ [][W_AgentMessage => agent_loaded]_vars
  /\ [][(W_ConnIn /\ ~agent_loaded) => ~agent_listening]_vars

\* The part about agent_listening_ and the two DCHECKs.
C37_ListeningImpliesLoaded ==
  /\ [](~destroyed => (agent_listening => agent_loaded))
  /\ [][W_AgentMessage => agent_loaded]_vars
  /\ [][(W_ConnIn /\ ~agent_loaded) => ~agent_listening]_vars

\* The poll loop waits with a connection held and bytes on it, the agent not
\* loaded, and agent_has_socket_ reading true.
C37_Witness ==
  /\ wpc = "poll"
  /\ agent_has_socket
  /\ ~agent_loaded
  /\ adb_connection_socket # NoFd
  /\ conn_data
  /\ ~destroyed

\* recvmsg returned a positive count for a datagram without a descriptor.
NoFdDatagram == adbd_queue # <<>> /\ Head(adbd_queue) = 0

\* C38: a datagram that carries no descriptor, received with a positive byte
\* count, is handled as a failed receive: no connection is adopted,
\* control_sock_ is closed, the lock is given back and the worker is at the
\* outer loop, which sets the control socket up again.
C38_NoFdDatagramIsFailure ==
  /\ [][(W_ControlRecv /\ NoFdDatagram) =>
          /\ ev'.op = "recv-fail"
          /\ adb_connection_socket' = NoFd
          /\ control_sock' = NoFd
          /\ wpc' = "d_unlock_break"
          /\ UNCHANGED <<flags, maybe_send_fds>>]_vars
  /\ [][(W_ControlUnlock /\ ev.op = "recv-fail") =>
          /\ wpc' = "outer"
          /\ adb_write_event_fd' = kEventfdUnlocked
          /\ UNCHANGED <<adb_connection_socket, control_sock, flags>>]_vars
  /\ [][(W_Outer /\ ev.op = "plumb" /\ control_sock = NoFd /\ ~shutting_down) =>
          wpc' \in {"setup", "done"} /\ (wpc' = "done" => ev'.res = "socket")]_vars

\* A datagram without a descriptor has just been received with a positive
\* count: the receive counts as failed, the control socket is closed, there is
\* no connection, and the worker is about to leave the locked block by break.
C38_Witness ==
  /\ wpc = "d_unlock_break"
  /\ ev = Ev("recv-fail", "-", "no-fd")
  /\ adb_connection_socket = NoFd
  /\ control_sock = NoFd
  /\ ~destroyed

====
